---------------------------- MODULE Spec2Model ----------------------------
(***************************************************************************)
(* The marker tool of app/tools/bezier.py (BezierMarkerTool, its commands  *)
(* and its interactor style) driven through the CommandManager of          *)
(* app/core/commands.py.                                                   *)
(*                                                                         *)
(* Handles (vtk actors) are numbered 1, 2, ... in creation order; a        *)
(* surface vertex is its index into mesh.points; a position is a pair of   *)
(* integers in half-units (0.5), the surface being flat (z = 0).           *)
(***************************************************************************)
EXTENDS Integers, Sequences, FiniteSets, TLC

\* ----------------------------------------------------------------- bounds
\* handles the session may create
MaxActors == 4
\* commands the undo stack may hold
MaxHist == 1
\* the surface is a GridN x GridN vertex grid
GridN == 6

\* ---------------------------------------------------------------- surface
Vertices == 0 .. (GridN * GridN - 1)

\* mesh.points: vertex v sits at column v % GridN, row v \div GridN, the
\* grid spacing being 2.0 units (4 half-units)
MeshPoints == [v \in Vertices |-> <<4 * (v % GridN), 4 * (v \div GridN)>>]

DistSq(p, q) == (p[1] - q[1]) * (p[1] - q[1]) + (p[2] - q[2]) * (p[2] - q[2])

\* the vertex nearest to pos (the lowest id among equidistant ones)
NearestVertex(pos) ==
    CHOOSE v \in Vertices :
        \A w \in Vertices :
            \/ DistSq(MeshPoints[v], pos) < DistSq(MeshPoints[w], pos)
            \/ DistSq(MeshPoints[v], pos) = DistSq(MeshPoints[w], pos) /\ v <= w

\* floor of the square root
ISqrt(n) == CHOOSE r \in 0 .. n : r * r <= n /\ (r + 1) * (r + 1) > n

Max(a, b) == IF a >= b THEN a ELSE b

\* program constant: the least number of samples of a segment
MinSamples == 10

\* num = int(max(10, dist / 0.5)); positions are in half-units, so
\* dist / 0.5 is the distance in position units
SampleCount(pa, pb) == Max(MinSamples, ISqrt(DistSq(pa, pb)))

\* the vertex nearest to the k-th of num samples of np.linspace(0, 1, num)
\* between pa and pb: distances are compared after scaling by (num - 1)
SnapSample(pa, pb, num, k) ==
    LET \* the scaled squared distance from the point m to the sample (sx, sy)
        D(m, sx, sy) == ((num - 1) * m[1] - sx) * ((num - 1) * m[1] - sx)
                      + ((num - 1) * m[2] - sy) * ((num - 1) * m[2] - sy)
        closest(sx, sy) ==
            CHOOSE v \in Vertices :
                \A w \in Vertices :
                    \/ D(MeshPoints[v], sx, sy) < D(MeshPoints[w], sx, sy)
                    \/ D(MeshPoints[v], sx, sy) = D(MeshPoints[w], sx, sy) /\ v <= w
    IN  closest((num - 1) * pa[1] + k * (pb[1] - pa[1]),
                (num - 1) * pa[2] + k * (pb[2] - pa[2]))

\* the cache-miss branch of _get_segment_points: interpolate, snap
InterpSnap(pid_a, pid_b) ==
    LET pa == MeshPoints[pid_a]
        pb == MeshPoints[pid_b]
        num == SampleCount(pa, pb)
    IN  [k \in 1 .. num |-> SnapSample(pa, pb, num, k - 1)]

\* the four corners of the grid, counter-clockwise from the origin
Corners ==
    <<<<0, 0>>, <<4 * (GridN - 1), 0>>, <<4 * (GridN - 1), 4 * (GridN - 1)>>,
      <<0, 4 * (GridN - 1)>>>>

\* positions of the surface the pointer may hit: two corners of the grid and
\* a point of the bottom edge that is no vertex
HitPositions == {Corners[1], Corners[2], <<1, 0>>}

\* the corners of the square of three by three grid squares at the origin
SmallSquare == <<<<0, 0>>, <<12, 0>>, <<12, 12>>, <<0, 12>>>>

\* the vertices the anchors of a session can sit on
AnchorVertices ==
    {NearestVertex(p) :
        p \in HitPositions \cup {Corners[i] : i \in 1 .. 4} \cup {SmallSquare[i] : i \in 1 .. 4}}

\* InterpSnap and NearestVertex, evaluated once for the arguments in use
SnappedTable == [a \in AnchorVertices |-> [b \in AnchorVertices |-> InterpSnap(a, b)]]
NearestTable ==
    [p \in HitPositions \cup {MeshPoints[v] : v \in Vertices} |-> NearestVertex(p)]

\* mesh.find_closest_point(pos)
find_closest_point(pos) == NearestTable[pos]


\* ------------------------------------------------------------- tool state
VARIABLES
    nodes,          \* tool.nodes: the handles, in curve order
    node_ids,       \* tool.node_ids: the vertex id of each anchor
    is_closed,      \* tool.is_closed
    path_cache,     \* tool.path_cache: sorted vertex pair -> snapped vertices
    actor_pos,      \* actor_pos[a]: the vertex at whose point handle a is shown
    plotter,        \* plotter.actors, as far as it holds handles of the tool
    active_node,    \* tool.active_node (0 is None)
    is_dragging,    \* tool.is_dragging
    drag_start_pid, \* tool._drag_start_pid
    drag_start_pos, \* tool._drag_start_pos, as the vertex it is the point of
    undo_stack,     \* command_manager.undo_stack
    redo_stack,     \* command_manager.redo_stack
    point_data,     \* names of the per-vertex arrays of the displayed surface
    is_barrier,     \* the vertices where its "is_barrier" array holds 1
    region,         \* what the last get_selected_region returned
    n_executed,     \* how many commands the session has handed to execute()
    app_active_actor, \* app.active_actor: the host has an active surface
    target_actor,   \* tool.target_actor is bound (to the one surface)
    locator,        \* tool.locator is built
    interactor_style, \* the style installed on the interactor
    prev_style,     \* tool._prev_style ("none" is None)
    mesh,           \* tool.mesh: the width, height and faces of the surface
    clean_path_ids  \* the path handed to _make_barrier_watertight

vars == <<nodes, node_ids, is_closed, path_cache, actor_pos, plotter, active_node,
          is_dragging, drag_start_pid, drag_start_pos, undo_stack, redo_stack,
          point_data, is_barrier, region, n_executed,
          app_active_actor, target_actor, locator, interactor_style, prev_style,
          mesh, clean_path_ids>>

\* the fields the internal operations of the tool read and write
Tool ==
    [nodes |-> nodes, node_ids |-> node_ids, is_closed |-> is_closed,
     path_cache |-> path_cache, actor_pos |-> actor_pos, plotter |-> plotter]

SetTool(T) ==
    /\ nodes' = T.nodes
    /\ node_ids' = T.node_ids
    /\ is_closed' = T.is_closed
    /\ path_cache' = T.path_cache
    /\ actor_pos' = T.actor_pos
    /\ plotter' = T.plotter

EmptyCache == [k \in {} |-> << >>]

Last(s) == s[Len(s)]
Front(s) == SubSeq(s, 1, Len(s) - 1)
Range(s) == {s[i] : i \in 1 .. Len(s)}

\* list.index(x), 1-based; 0 stands for the ValueError of an absent x
IndexOf(s, x) ==
    IF x \in Range(s) THEN CHOOSE i \in 1 .. Len(s) : s[i] = x /\ \A j \in 1 .. (i - 1) : s[j] # x
    ELSE 0

\* list.insert(idx, x) for a 0-based idx >= 0: an idx past the end appends
InsertAt(s, idx, x) ==
    LET i == IF idx > Len(s) THEN Len(s) ELSE idx
    IN  SubSeq(s, 1, i) \o <<x>> \o SubSeq(s, i + 1, Len(s))

\* list.pop(i) for a 1-based position i
RemoveAt(s, i) == SubSeq(s, 1, i - 1) \o SubSeq(s, i + 1, Len(s))

\* ------------------------------------------------------------- the scene
\* plotter.actors maps a name to one actor. The name "BezierNode_k" is the
\* number k; the name an actor gets from its address is the negative of
\* its handle number. plotter.name[a] is the name handle a was created
\* under. The scene library registers an actor that is added without a
\* name under the name the actor carries (named) or under its address.
NewPlotter == [actors |-> [n \in {} |-> 0], name |-> << >>, named |-> TRUE]

\* the scene of either kind of library
Builds(P) == {[P EXCEPT !.named = b] : b \in BOOLEAN}

\* the handles the scene shows
Shown(P) == {P.actors[n] : n \in DOMAIN P.actors}

\* what plotter.actors[name] = actor leaves: an actor that held the name
\* has left the scene
Register(P, name, actor) ==
    [P EXCEPT !.actors = [n \in (DOMAIN P.actors) \cup {name} |->
                             IF n = name THEN actor ELSE P.actors[n]]]

\* plotter.add_mesh(sphere, name=f"BezierNode_{name}"): the new handle is
\* the next unused number
add_mesh(P, name) ==
    [Register(P, name, Len(P.name) + 1) EXCEPT !.name = Append(P.name, name)]

\* plotter.remove_actor(actor)
remove_actor(P, actor) ==
    [P EXCEPT !.actors = [n \in {m \in DOMAIN P.actors : P.actors[m] # actor} |->
                             P.actors[n]]]

\* plotter.add_actor(actor)
add_actor(P, actor) ==
    Register(P, IF P.named THEN P.name[actor] ELSE 0 - actor, actor)

\* for n in nodes_list: plotter.remove_actor(n)
remove_actors(P, nodes_list) ==
    [P EXCEPT !.actors = [n \in {m \in DOMAIN P.actors :
                                    P.actors[m] \notin Range(nodes_list)} |->
                             P.actors[n]]]

\* the loop of _internal_restore_full_state from nodes_list[i] on: an
\* actor the scene does not show is added to it
RECURSIVE restore_actors(_, _, _)
restore_actors(P, nodes_list, i) ==
    IF i > Len(nodes_list) THEN P
    ELSE restore_actors(IF nodes_list[i] \notin Shown(P)
                        THEN add_actor(P, nodes_list[i]) ELSE P,
                        nodes_list, i + 1)

\* ------------------------------------------------------------- path cache
\* tuple(sorted((pid_a, pid_b)))
CacheKey(pid_a, pid_b) == IF pid_a <= pid_b THEN <<pid_a, pid_b>> ELSE <<pid_b, pid_a>>

\* _get_segment_points(idx_a, idx_b) for 0-based indices: the points (as
\* vertices) it returns and the cache it leaves
_get_segment_points(T, idx_a, idx_b) ==
    LET pid_a == T.node_ids[idx_a + 1]
        pid_b == T.node_ids[idx_b + 1]
        key == CacheKey(pid_a, pid_b)
        \* self.path_cache[key] = snapped; return snapped
        miss(snapped) ==
            [pts |-> snapped,
             cache |-> [k \in (DOMAIN T.path_cache) \cup {key} |->
                           IF k = key THEN snapped ELSE T.path_cache[k]]]
    IN  IF key \in DOMAIN T.path_cache
        THEN [pts |-> T.path_cache[key], cache |-> T.path_cache]
        ELSE miss(SnappedTable[pid_a][pid_b])

\* the loop of _get_full_path_points from segment i on, `full` being the
\* points gathered so far
RECURSIVE FullPathFrom(_, _, _)
FullPathFrom(T, i, full) ==
    LET count == Len(T.nodes)
        rng == IF T.is_closed THEN count ELSE count - 1
        \* the body of the loop, seg being the segment it fetched
        extend(seg) ==
            FullPathFrom([T EXCEPT !.path_cache = seg.cache], i + 1,
                IF full # << >> THEN full \o Tail(seg.pts) ELSE seg.pts)
    IN  IF i >= rng THEN [pts |-> full, cache |-> T.path_cache]
        ELSE extend(_get_segment_points(T, i, (i + 1) % count))

_get_full_path_points(T) ==
    IF Len(T.nodes) < 2 THEN [pts |-> << >>, cache |-> T.path_cache]
    ELSE FullPathFrom(T, 0, << >>)

\* update_curve: the curve is rebuilt from the full path; of the tool's
\* state it changes the cache (the line actor is a rendering detail)
update_curve(T) == [T EXCEPT !.path_cache = _get_full_path_points(T).cache]

\* _invalidate_neighbors(idx)
_invalidate_neighbors(T, idx) == [T EXCEPT !.path_cache = EmptyCache]

\* ---------------------------------------------------- internal operations
\* _internal_add_node without its test for a repeat of the last vertex
_internal_add_node_unchecked(T, pos, insert_after_idx) ==
    LET actor == Len(T.actor_pos) + 1
        added(pid) ==
            [tool |-> update_curve(
                 IF insert_after_idx # -1
                 THEN [T EXCEPT !.actor_pos = Append(T.actor_pos, pid),
                                !.plotter = add_mesh(T.plotter, Len(T.nodes)),
                                !.nodes = InsertAt(T.nodes, insert_after_idx + 1, actor),
                                !.node_ids = InsertAt(T.node_ids, insert_after_idx + 1, pid),
                                !.path_cache = EmptyCache]
                 ELSE [T EXCEPT !.actor_pos = Append(T.actor_pos, pid),
                                !.plotter = add_mesh(T.plotter, Len(T.nodes)),
                                !.nodes = Append(T.nodes, actor),
                                !.node_ids = Append(T.node_ids, pid)]),
             actor |-> actor, pid |-> pid]
    IN  added(find_closest_point(pos))

\* _internal_remove_node_by_actor without the reset of is_closed
_internal_remove_node_keeping_closed(T, actor) ==
    LET removed(i) ==
            IF i = 0 THEN T
            ELSE update_curve([T EXCEPT !.nodes = RemoveAt(T.nodes, i),
                                        !.node_ids = RemoveAt(T.node_ids, i),
                                        !.plotter = remove_actor(T.plotter, actor),
                                        !.path_cache = EmptyCache])
    IN  removed(IndexOf(T.nodes, actor))

\* _internal_remove_node_by_actor removing the last anchor when the actor
\* is absent
_internal_remove_node_or_last(T, actor) ==
    LET removed(i) ==
            IF i = 0 THEN T
            ELSE update_curve([T EXCEPT !.nodes = RemoveAt(T.nodes, i),
                                        !.node_ids = RemoveAt(T.node_ids, i),
                                        !.plotter = remove_actor(T.plotter, actor),
                                        !.path_cache = EmptyCache,
                                        !.is_closed = T.is_closed /\ Len(T.nodes) - 1 >= 3])
    IN  removed(IF actor \in Range(T.nodes) THEN IndexOf(T.nodes, actor) ELSE Len(T.nodes))

\* _internal_add_node inserting at insert_after_idx, not one past it
_internal_add_node_before(T, pos, insert_after_idx) ==
    LET actor == Len(T.actor_pos) + 1
        at == IF insert_after_idx < 0 THEN 0 ELSE insert_after_idx
        added(pid) ==
            IF T.node_ids # << >> /\ insert_after_idx = -1 /\ Last(T.node_ids) = pid
            THEN [tool |-> T, actor |-> Last(T.nodes), pid |-> Last(T.node_ids)]
            ELSE [tool |-> update_curve(
                      IF insert_after_idx # -1
                      THEN [T EXCEPT !.actor_pos = Append(T.actor_pos, pid),
                                     !.plotter = add_mesh(T.plotter, Len(T.nodes)),
                                     !.nodes = InsertAt(T.nodes, at, actor),
                                     !.node_ids = InsertAt(T.node_ids, at, pid),
                                     !.path_cache = EmptyCache]
                      ELSE [T EXCEPT !.actor_pos = Append(T.actor_pos, pid),
                                     !.plotter = add_mesh(T.plotter, Len(T.nodes)),
                                     !.nodes = Append(T.nodes, actor),
                                     !.node_ids = Append(T.node_ids, pid)]),
                  actor |-> actor, pid |-> pid]
    IN  added(find_closest_point(pos))

\* _internal_add_node(pos, insert_after_idx): the tool it leaves and the
\* (actor, pid) it returns; a new handle is the next unused number
_internal_add_node(T, pos, insert_after_idx) ==
    LET actor == Len(T.actor_pos) + 1
        idx == insert_after_idx + 1
        \* the method past pid, _ = self.mesh.find_closest_point(pos)
        added(pid) ==
            IF T.node_ids # << >> /\ insert_after_idx = -1 /\ Last(T.node_ids) = pid
            THEN [tool |-> T, actor |-> Last(T.nodes), pid |-> Last(T.node_ids)]
            ELSE [tool |-> update_curve(
                      IF insert_after_idx # -1
                      THEN _invalidate_neighbors(_invalidate_neighbors(
                               [T EXCEPT !.actor_pos = Append(T.actor_pos, pid),
                                         !.plotter = add_mesh(T.plotter, Len(T.nodes)),
                                         !.nodes = InsertAt(T.nodes, idx, actor),
                                         !.node_ids = InsertAt(T.node_ids, idx, pid)],
                               insert_after_idx), idx)
                      ELSE [T EXCEPT !.actor_pos = Append(T.actor_pos, pid),
                                     !.plotter = add_mesh(T.plotter, Len(T.nodes)),
                                     !.nodes = Append(T.nodes, actor),
                                     !.node_ids = Append(T.node_ids, pid)]),
                  actor |-> actor, pid |-> pid]
    IN  added(find_closest_point(pos))

\* _internal_remove_node_by_actor popping the handle and keeping its vertex id
_internal_remove_node_keeping_id(T, actor) ==
    LET removed(i) ==
            IF i = 0 THEN T
            ELSE update_curve([T EXCEPT !.nodes = RemoveAt(T.nodes, i),
                                        !.plotter = remove_actor(T.plotter, actor),
                                        !.path_cache = EmptyCache,
                                        !.is_closed = T.is_closed /\ Len(T.nodes) - 1 >= 3])
    IN  removed(IndexOf(T.nodes, actor))

\* _internal_remove_node_by_actor(actor): an absent actor raises ValueError
\* in nodes.index, which the method swallows
_internal_remove_node_by_actor(T, actor) ==
    LET \* if len(self.nodes) < 3: self.is_closed = False
        shrunk(T2) == IF Len(T2.nodes) < 3 THEN [T2 EXCEPT !.is_closed = FALSE] ELSE T2
        \* the method past idx = self.nodes.index(actor), i being idx + 1
        removed(i) ==
            IF i = 0 THEN T
            ELSE update_curve(shrunk(
                     [_invalidate_neighbors(T, i - 2) EXCEPT
                         !.nodes = RemoveAt(T.nodes, i),
                         !.node_ids = RemoveAt(T.node_ids, i),
                         !.plotter = remove_actor(T.plotter, actor)]))
    IN  removed(IndexOf(T.nodes, actor))

\* _internal_restore_node putting the anchor back at the end of the list
_internal_restore_node_at_end(T, actor, pid, idx, was_closed) ==
    update_curve([T EXCEPT !.nodes = Append(T.nodes, actor),
                           !.node_ids = Append(T.node_ids, pid),
                           !.plotter = add_actor(T.plotter, actor),
                           !.is_closed = was_closed,
                           !.path_cache = EmptyCache])

\* _internal_restore_node(actor, pid, idx, was_closed), idx 0-based
_internal_restore_node(T, actor, pid, idx, was_closed) ==
    LET T1 == [T EXCEPT !.nodes = InsertAt(T.nodes, idx, actor),
                        !.node_ids = InsertAt(T.node_ids, idx, pid),
                        !.plotter = add_actor(T.plotter, actor),
                        !.is_closed = was_closed]
    IN  update_curve(_invalidate_neighbors(_invalidate_neighbors(T1, idx - 1), idx))

\* _internal_update_node_pos(actor, pos, pid): the handle is moved first;
\* an absent actor then raises in nodes.index, which the method swallows
_internal_update_node_pos(T, actor, pos, pid) ==
    LET \* the method past idx = self.nodes.index(actor), i being idx + 1
        moved(i) ==
            IF i = 0 THEN [T EXCEPT !.actor_pos[actor] = pos]
            ELSE update_curve(_invalidate_neighbors(_invalidate_neighbors(
                     [T EXCEPT !.actor_pos[actor] = pos, !.node_ids[i] = pid],
                     i - 2), i - 1))
    IN  moved(IndexOf(T.nodes, actor))

\* _internal_hard_reset(keep_actors): the handles leave the scene unless
\* kept; the lists, the cache and the closed flag are reset
_internal_hard_reset(T, keep_actors) ==
    [T EXCEPT !.nodes = << >>, !.node_ids = << >>,
              !.path_cache = EmptyCache, !.is_closed = FALSE,
              !.plotter = IF keep_actors THEN T.plotter
                          ELSE remove_actors(T.plotter, T.nodes)]

\* _internal_restore_full_state leaving the loop open, as the reset left it
_internal_restore_full_state_open(T, nodes_list, ids_list, closed_state) ==
    update_curve([_internal_hard_reset(T, TRUE) EXCEPT
                     !.nodes = nodes_list,
                     !.plotter = restore_actors(T.plotter, nodes_list, 1),
                     !.node_ids = [i \in 1 .. Len(nodes_list) |-> ids_list[i]]])

\* _internal_restore_full_state(nodes_list, ids_list, closed_state)
_internal_restore_full_state(T, nodes_list, ids_list, closed_state) ==
    update_curve([_internal_hard_reset(T, TRUE) EXCEPT
                     !.nodes = nodes_list,
                     !.plotter = restore_actors(T.plotter, nodes_list, 1),
                     !.node_ids = [i \in 1 .. Len(nodes_list) |-> ids_list[i]],
                     !.is_closed = closed_state])

\* clear_all_markup
clear_all_markup(T) == _internal_hard_reset(T, FALSE)

\* ------------------------------------------------------------- lifecycle
\* what start() and stop() read and write: the binding to the surface, the
\* style on the interactor, the active anchor
Attachment ==
    [target_actor |-> target_actor, locator |-> locator,
     interactor_style |-> interactor_style, prev_style |-> prev_style,
     active_node |-> active_node, point_data |-> point_data]

SetAttachment(A) ==
    /\ target_actor' = A.target_actor
    /\ locator' = A.locator
    /\ interactor_style' = A.interactor_style
    /\ prev_style' = A.prev_style
    /\ active_node' = A.active_node

\* start() binding the tool whether or not the host has an active surface
start_unguarded(A, active_actor) ==
    [A EXCEPT !.target_actor = TRUE, !.locator = TRUE,
              !.point_data = A.point_data \cup {"Normals"},
              !.prev_style = A.interactor_style,
              !.interactor_style = "bezier"]

\* start(), active_actor being app.active_actor
start(A, active_actor) ==
    IF ~active_actor THEN A
    ELSE [A EXCEPT !.target_actor = TRUE, !.locator = TRUE,
                   !.point_data = A.point_data \cup {"Normals"},
                   !.prev_style = A.interactor_style,
                   !.interactor_style = "bezier"]

\* stop(): the saved style (or the trackball style) is put back, and
\* app.enable_object_selection_mode() then installs the trackball style
stop(A) ==
    LET restored == [A EXCEPT !.interactor_style =
                         IF A.prev_style # "none" THEN A.prev_style ELSE "trackball"]
    IN  [restored EXCEPT !.interactor_style = "trackball",
                         !.active_node = 0,
                         !.locator = FALSE]

\* ---------------------------------------------------------------- commands
\* BezierCmdAdd.__init__
BezierCmdAdd(T, position, insert_idx) ==
    [type |-> "Add", pos |-> position, insert_idx |-> insert_idx,
     added_actor |-> 0, added_pid |-> -1, final_idx |-> -1]

BezierCmdAdd_execute(T, c) ==
    LET \* r is what _internal_add_node returned, with the tool it left
        kept(r) ==
            [tool |-> r.tool,
             cmd |-> [c EXCEPT !.added_actor = r.actor, !.added_pid = r.pid,
                               !.final_idx = IndexOf(r.tool.nodes, r.actor) - 1]]
    IN  kept(_internal_add_node(T, c.pos, c.insert_idx))

BezierCmdAdd_undo(T, c) ==
    [tool |-> IF c.added_actor # 0 THEN _internal_remove_node_by_actor(T, c.added_actor) ELSE T,
     cmd |-> c]

\* BezierCmdDelete.__init__: the snapshot taken before deletion
BezierCmdDelete(T, actor) ==
    LET idx == IndexOf(T.nodes, actor) - 1
    IN  [type |-> "Delete", actor |-> actor, idx |-> idx,
         pid |-> IF idx # -1 THEN T.node_ids[idx + 1] ELSE -1,
         pos |-> T.actor_pos[actor], was_closed |-> T.is_closed]

BezierCmdDelete_execute(T, c) ==
    [tool |-> _internal_remove_node_by_actor(T, c.actor), cmd |-> c]

BezierCmdDelete_undo(T, c) ==
    [tool |-> IF c.idx # -1
              THEN _internal_restore_node(T, c.actor, c.pid, c.idx, c.was_closed)
              ELSE T,
     cmd |-> c]

\* BezierCmdMove.__init__
BezierCmdMove(T, actor, old_pos, new_pos, old_pid, new_pid) ==
    [type |-> "Move", actor |-> actor, old_pos |-> old_pos, new_pos |-> new_pos,
     old_pid |-> old_pid, new_pid |-> new_pid]

BezierCmdMove_execute(T, c) ==
    [tool |-> _internal_update_node_pos(T, c.actor, c.new_pos, c.new_pid), cmd |-> c]

BezierCmdMove_undo(T, c) ==
    [tool |-> _internal_update_node_pos(T, c.actor, c.old_pos, c.old_pid), cmd |-> c]

\* BezierCmdCloseLoop.__init__
BezierCmdCloseLoop(T) == [type |-> "CloseLoop", prev_state |-> T.is_closed]

BezierCmdCloseLoop_execute(T, c) ==
    [tool |-> update_curve([T EXCEPT !.is_closed = TRUE]), cmd |-> c]

BezierCmdCloseLoop_undo(T, c) ==
    [tool |-> update_curve([T EXCEPT !.is_closed = c.prev_state]), cmd |-> c]

\* BezierCmdClear.__init__
BezierCmdClear(T) ==
    [type |-> "Clear", saved_nodes |-> T.nodes, saved_ids |-> T.node_ids,
     saved_closed |-> T.is_closed]

BezierCmdClear_execute(T, c) == [tool |-> _internal_hard_reset(T, FALSE), cmd |-> c]

BezierCmdClear_undo(T, c) ==
    [tool |-> _internal_restore_full_state(T, c.saved_nodes, c.saved_ids, c.saved_closed),
     cmd |-> c]

\* AddMeshCommand: it adds the generated base to the host's scene and
\* leaves the marker tool alone
AddMeshCommand == [type |-> "AddMesh"]

\* execute() of a command that is no MultiCommand
ExecuteOne(T, c) ==
    CASE c.type = "Add" -> BezierCmdAdd_execute(T, c)
      [] c.type = "Delete" -> BezierCmdDelete_execute(T, c)
      [] c.type = "Move" -> BezierCmdMove_execute(T, c)
      [] c.type = "CloseLoop" -> BezierCmdCloseLoop_execute(T, c)
      [] c.type = "Clear" -> BezierCmdClear_execute(T, c)
      [] OTHER -> [tool |-> T, cmd |-> c]

\* undo() of a command that is no MultiCommand
UndoOne(T, c) ==
    CASE c.type = "Add" -> BezierCmdAdd_undo(T, c)
      [] c.type = "Delete" -> BezierCmdDelete_undo(T, c)
      [] c.type = "Move" -> BezierCmdMove_undo(T, c)
      [] c.type = "CloseLoop" -> BezierCmdCloseLoop_undo(T, c)
      [] c.type = "Clear" -> BezierCmdClear_undo(T, c)
      [] OTHER -> [tool |-> T, cmd |-> c]

\* MultiCommand.__init__
MultiCommand(commands_list) == [type |-> "Multi", commands |-> commands_list]

\* MultiCommand.execute: the members in list order, from member i on
RECURSIVE MultiCommand_execute(_, _, _)
MultiCommand_execute(T, c, i) ==
    IF i > Len(c.commands) THEN [tool |-> T, cmd |-> c]
    ELSE LET rest(r) == MultiCommand_execute(r.tool, [c EXCEPT !.commands[i] = r.cmd], i + 1)
         IN  rest(ExecuteOne(T, c.commands[i]))

\* MultiCommand.undo: the members in reverse order, from member i down
RECURSIVE MultiCommand_undo(_, _, _)
MultiCommand_undo(T, c, i) ==
    IF i < 1 THEN [tool |-> T, cmd |-> c]
    ELSE LET rest(r) == MultiCommand_undo(r.tool, [c EXCEPT !.commands[i] = r.cmd], i - 1)
         IN  rest(UndoOne(T, c.commands[i]))

\* command.execute()
Execute(T, c) ==
    IF c.type = "Multi" THEN MultiCommand_execute(T, c, 1) ELSE ExecuteOne(T, c)

\* command.undo()
UndoCmd(T, c) ==
    IF c.type = "Multi" THEN MultiCommand_undo(T, c, Len(c.commands)) ELSE UndoOne(T, c)

\* ------------------------------------------------ insertion-index resolving
\* a non-negative rational n / d, d > 0
Frac(n, d) == [n |-> n, d |-> d]
\* f < g, comparing whole parts first so that no product overflows
FracLess(f, g) ==
    IF f.n \div f.d # g.n \div g.d THEN f.n \div f.d < g.n \div g.d
    ELSE (f.n % f.d) * g.d < (g.n % g.d) * f.d

RECURSIVE GCD(_, _)
GCD(a, b) == IF b = 0 THEN a ELSE GCD(b, a % b)

\* _dist_sq_to_segment(p, a, b), exactly: t is clamped to [0, 1]
_dist_sq_to_segment(p, a, b) ==
    LET abx == b[1] - a[1]
        aby == b[2] - a[2]
        apx == p[1] - a[1]
        apy == p[2] - a[2]
        len_sq == abx * abx + aby * aby
        dot == apx * abx + apy * aby
    IN  IF len_sq = 0 THEN Frac(apx * apx + apy * apy, 1)
        ELSE IF dot <= 0 THEN Frac(apx * apx + apy * apy, 1)
        ELSE IF dot >= len_sq THEN Frac(DistSq(p, b), 1)
        ELSE Frac((apx * apx + apy * apy) * len_sq - dot * dot, len_sq)

\* mesh.length squared: the diagonal of the bounding box of the surface
MeshLengthSq ==
    LET hi(S) == CHOOSE m \in S : \A x \in S : x <= m
        lo(S) == CHOOSE m \in S : \A x \in S : m <= x
        diag(dx, dy) == dx * dx + dy * dy
        box(xs, ys) == diag(hi(xs) - lo(xs), hi(ys) - lo(ys))
    IN  box({MeshPoints[v][1] : v \in Vertices}, {MeshPoints[v][2] : v \in Vertices})

\* threshold_sq = (node_radius * 3.5) ** 2 with node_radius = mesh.length *
\* 0.00375, and 3.5 * 0.00375 = 21 / 1600
ThresholdSq ==
    LET reduced(n, g) == Frac(n \div g, 2560000 \div g)
        scaled(n) == reduced(n, GCD(n, 2560000))
    IN  scaled(441 * MeshLengthSq)

\* the inner loop of _resolve_insertion_index: the least squared distance
\* from hit_pos to the pieces of the polyline pts
PolylineDistSq(hit_pos, pts) ==
    LET least(d_sq) ==
            d_sq[CHOOSE k \in DOMAIN d_sq : \A j \in DOMAIN d_sq : ~FracLess(d_sq[j], d_sq[k])]
    IN  least([k \in 1 .. (Len(pts) - 1) |->
                  _dist_sq_to_segment(hit_pos, MeshPoints[pts[k]], MeshPoints[pts[k + 1]])])

\* PolylineDistSq, evaluated once for the snapped segments in use
PolylineDistTable ==
    [p \in HitPositions |-> [a \in AnchorVertices |-> [b \in AnchorVertices |->
        PolylineDistSq(p, SnappedTable[a][b])]]]

\* the least squared distance from hit_pos to the cached polyline pts
SegmentDistSq(hit_pos, pts) ==
    LET a == pts[1]
        b == pts[Len(pts)]
    IN  IF hit_pos \in HitPositions /\ {a, b} \subseteq AnchorVertices /\ pts = SnappedTable[a][b]
        THEN PolylineDistTable[hit_pos][a][b]
        ELSE PolylineDistSq(hit_pos, pts)

\* _resolve_insertion_index leaving out the closing segment of a closed loop
_resolve_insertion_index_open(T, hit_pos) ==
    IF Len(T.nodes) < 2 THEN [idx |-> -1, cache |-> T.path_cache]
    ELSE LET count == Len(T.nodes)
             loop_range == count - 1
             \* the segment i of the curve, as the cache holds it
             pts(cache, i) ==
                 cache[CacheKey(T.node_ids[i + 1], T.node_ids[((i + 1) % count) + 1])]
             \* the first index of the least distance, if under the threshold
             best(D, best_idx) == IF FracLess(D[best_idx], ThresholdSq) THEN best_idx ELSE -1
             nearest(D) ==
                 best(D, CHOOSE i \in 0 .. (loop_range - 1) :
                             /\ \A j \in 0 .. (loop_range - 1) : ~FracLess(D[j], D[i])
                             /\ \A j \in 0 .. (i - 1) : FracLess(D[i], D[j]))
             scan(cache) ==
                 [idx |-> nearest([i \in 0 .. (loop_range - 1) |->
                                      SegmentDistSq(hit_pos, pts(cache, i))]),
                  cache |-> cache]
         IN  scan(_get_full_path_points(T).cache)

\* _resolve_insertion_index(hit_pos): the index it returns (0-based, -1 for
\* append) and the cache its _get_segment_points calls leave
_resolve_insertion_index(T, hit_pos) ==
    IF Len(T.nodes) < 2 THEN [idx |-> -1, cache |-> T.path_cache]
    ELSE LET count == Len(T.nodes)
             loop_range == IF T.is_closed THEN count ELSE count - 1
             \* the segment i of the curve, as the cache holds it
             pts(cache, i) ==
                 cache[CacheKey(T.node_ids[i + 1], T.node_ids[((i + 1) % count) + 1])]
             \* the first index of the least distance, if under the threshold
             best(D, best_idx) == IF FracLess(D[best_idx], ThresholdSq) THEN best_idx ELSE -1
             nearest(D) ==
                 best(D, CHOOSE i \in 0 .. (loop_range - 1) :
                             /\ \A j \in 0 .. (loop_range - 1) : ~FracLess(D[j], D[i])
                             /\ \A j \in 0 .. (i - 1) : FracLess(D[i], D[j]))
             scan(cache) ==
                 [idx |-> nearest([i \in 0 .. (loop_range - 1) |->
                                      SegmentDistSq(hit_pos, pts(cache, i))]),
                  cache |-> cache]
         IN  scan(_get_full_path_points(T).cache)

\* -------------------------------------------------------- surface topology
\* A mesh G, known by G.id, is a grid of G.w by G.h vertices (vertex v in
\* column v % G.w, row v \div G.w) with the faces G.cells. Every grid square (column c, row
\* r) is split along its diagonal into the triangles 2q and 2q + 1,
\* q = r * (G.w - 1) + c.
GridCells(w, h) == 0 .. (2 * (w - 1) * (h - 1) - 1)

\* the faces of the whole surface
CellIds == GridCells(GridN, GridN)

\* the surface of the session: the whole grid
GridMesh == [id |-> "grid", w |-> GridN, h |-> GridN, cells |-> CellIds]

\* mesh.GetCell(cid): the three vertices of a face, in order
GetCell(G, cid) ==
    LET q == cid \div 2
        v00 == (q \div (G.w - 1)) * G.w + (q % (G.w - 1))
    IN  IF cid % 2 = 0 THEN <<v00, v00 + 1, v00 + G.w + 1>>
        ELSE <<v00, v00 + G.w + 1, v00 + G.w>>

\* mesh.point_cell_ids(pid), as a set
point_cell_ids(G, pid) == {cid \in G.cells : pid \in Range(GetCell(G, cid))}

\* the vertices of the faces around pid, in the order the two loops of the
\* search meet them (faces by id, a face's vertices in order), repeats left
\* out; pid itself is among them
NeighbourOrder(G, pid) ==
    LET \* the first face, among the faces cids, where vertex n is met
        first(cids, n) ==
            CHOOSE c \in cids :
                n \in Range(GetCell(G, c)) /\ \A d \in cids : n \in Range(GetCell(G, d)) => c <= d
        \* the place (face, position in the face) where n is first met
        place(cid, n) == 3 * cid + IndexOf(GetCell(G, cid), n)
        key(cids, n) == place(first(cids, n), n)
        rank(cids, ns, n) == Cardinality({m \in ns : key(cids, m) < key(cids, n)}) + 1
        ordered(cids, ns) ==
            [r \in 1 .. Cardinality(ns) |-> CHOOSE n \in ns : rank(cids, ns, n) = r]
        around(cids) == ordered(cids, UNION {Range(GetCell(G, cid)) : cid \in cids})
    IN  around(point_cell_ids(G, pid))

\* the vertex set of every face of the grid
CellTable == [cid \in CellIds |-> Range(GetCell(GridMesh, cid))]

\* the point (c[1] / c[3], c[2] / c[3]) lies in face cid of the grid, its
\* edges included
InFace(cid, c) ==
    LET q == cid \div 2
        dx == c[1] - 4 * (q % (GridN - 1)) * c[3]
        dy == c[2] - 4 * (q \div (GridN - 1)) * c[3]
    IN  /\ 0 <= dx /\ dx <= 4 * c[3]
        /\ 0 <= dy /\ dy <= 4 * c[3]
        /\ IF cid % 2 = 0 THEN dy <= dx ELSE dx <= dy

\* the grid without the faces at its centre: a surface with a hole
HoledMesh ==
    [GridMesh EXCEPT !.id = "holed", !.cells =
        {cid \in CellIds : ~InFace(cid, <<2 * (GridN - 1), 2 * (GridN - 1), 1>>)}]

\* a strip of two rows of StripLen vertices
StripLen == 23
StripMesh == [id |-> "strip", w |-> StripLen, h |-> 2, cells |-> GridCells(StripLen, 2)]

\* the meshes a session or a search is run on
Meshes == {GridMesh, HoledMesh, StripMesh}

\* NeighbourOrder, evaluated once per mesh and vertex
NeighbourTable ==
    [id \in {G.id : G \in Meshes} |->
        LET G == CHOOSE M \in Meshes : M.id = id
        IN  [v \in 0 .. (G.w * G.h - 1) |-> NeighbourOrder(G, v)]]

\* NeighbourOrder, read from the table
Around(G, pid) == NeighbourTable[G.id][pid]

\* point_cell_ids, evaluated once per mesh and vertex
PointCellTable ==
    [id \in {G.id : G \in Meshes} |->
        LET G == CHOOSE M \in Meshes : M.id = id
        IN  [v \in 0 .. (G.w * G.h - 1) |-> point_cell_ids(G, v)]]

\* the two barrier points s and e share a face
ShareCell(G, s, e) == PointCellTable[G.id][s] \cap PointCellTable[G.id][e] # {}

\* -------------------------------------------------------- region extraction
\* program constants: the longest path the search expands, and the least
\* number of points of a region
MaxSearchPath == 20
MinRegionPoints == 10

\* what get_selected_region returns: None, or the extracted patch, given by
\* its points
NoRegion == [kind |-> "None", points |-> {}]
Patch(points) == [kind |-> "patch", points |-> points]
\* no call of get_selected_region has been made yet
NotCalled == [kind |-> "not called", points |-> {}]

\* s[lo] + ... + s[hi]
RECURSIVE SumSeq(_, _, _)
SumSeq(s, lo, hi) ==
    IF lo > hi THEN 0
    ELSE IF lo = hi THEN s[lo]
    ELSE LET mid == (lo + hi) \div 2
         IN  SumSeq(s, lo, mid) + SumSeq(s, mid + 1, hi)

\* np.mean(raw_path_points, axis=0), exactly: the point (c[1]/c[3], c[2]/c[3])
PathCentre(raw) ==
    LET n == Len(raw)
    IN  <<SumSeq([i \in 1 .. n |-> MeshPoints[raw[i]][1]], 1, n),
          SumSeq([i \in 1 .. n |-> MeshPoints[raw[i]][2]], 1, n), n>>

\* mesh.ray_trace(center + 200 * normal, center - 200 * normal): the surface
\* is flat, so the loop normal is (0, 0, 1) whatever the cross product is
\* (zero: replaced by it; downward: negated), and the ray meets the surface
\* at the centre itself when the centre is in a face of the surface
ray_trace(G, c) ==
    IF \E cid \in G.cells : InFace(cid, c) THEN <<c>> ELSE << >>

\* the search of _make_barrier_watertight for e, one queue generation at a
\* time: `level` holds the queued vertices whose path has d vertices, in
\* queue order, path[v] the path queued with v, vis the visited set. The
\* vertices of the path found, {} when none is found.
RECURSIVE SearchLevel(_, _, _, _, _, _)
SearchLevel(G, e, level, path, vis, d) ==
    LET \* nb[i] below: the vertices around the i-th queued vertex, in order
        \* the path of the first queued vertex that has e around it
        first(hits) == Range(path[level[CHOOSE i \in hits : \A j \in hits : i <= j]])
        \* the queued vertex that meets w first
        parent(nb, w) ==
            CHOOSE i \in 1 .. Len(level) :
                w \in Range(nb[i]) /\ \A j \in 1 .. (i - 1) : w \notin Range(nb[j])
        place(nb, i, w) == 10 * i + IndexOf(nb[i], w)
        key(nb, w) == place(nb, parent(nb, w), w)
        rank(nb, new, w) == Cardinality({u \in new : key(nb, u) < key(nb, w)}) + 1
        \* the next generation: the unvisited vertices, in the order met
        expand(nb, new) ==
            SearchLevel(G, e,
                [r \in 1 .. Cardinality(new) |-> CHOOSE w \in new : rank(nb, new, w) = r],
                [w \in new |-> Append(path[level[parent(nb, w)]], w)],
                vis \cup new, d + 1)
        visit(nb, hits) ==
            IF hits # {} THEN first(hits)
            ELSE expand(nb, UNION {Range(nb[i]) : i \in 1 .. Len(level)} \ vis)
        scan(nb) == visit(nb, {i \in 1 .. Len(level) : e \in Range(nb[i])})
    IN  IF level = << >> \/ d > MaxSearchPath THEN {}
        ELSE scan([i \in 1 .. Len(level) |-> Around(G, level[i])])

\* _make_barrier_watertight returning the ids it was handed, no gap searched
_make_barrier_watertight_unrepaired(G, initial_ids) == Range(initial_ids)

\* _make_barrier_watertight giving up at the first pair: the pairs after the
\* first are not searched
_make_barrier_watertight_first_pair(G, initial_ids) ==
    LET found(s, e) ==
            IF ShareCell(G, s, e) THEN {}
            ELSE SearchLevel(G, e, <<s>>, [v \in {s} |-> << >>], {s}, 0)
        bridged(ordered_ids) ==
            Range(ordered_ids) \cup
            (IF Len(ordered_ids) < 2 THEN {} ELSE found(ordered_ids[1], ordered_ids[2]))
        ordered(kept) ==
            bridged([r \in 1 .. Cardinality(kept) |->
                        initial_ids[CHOOSE i \in kept :
                            Cardinality({j \in kept : j <= i}) = r]])
    IN  IF initial_ids = << >> THEN {}
        ELSE ordered({i \in 1 .. Len(initial_ids) :
                         i = 1 \/ initial_ids[i] # initial_ids[i - 1]})

\* _make_barrier_watertight(initial_ids): the ids without immediate
\* repeats, and for every consecutive pair that shares no face the vertices
\* of the path the search finds
_make_barrier_watertight(G, initial_ids) ==
    LET found(s, e) ==
            IF ShareCell(G, s, e) THEN {}
            ELSE SearchLevel(G, e, <<s>>, [v \in {s} |-> << >>], {s}, 0)
        bridged(ordered_ids) ==
            Range(ordered_ids) \cup
            UNION {found(ordered_ids[i], ordered_ids[i + 1]) :
                       i \in 1 .. (Len(ordered_ids) - 1)}
        \* kept: the places of initial_ids that do not repeat the place before
        ordered(kept) ==
            bridged([r \in 1 .. Cardinality(kept) |->
                        initial_ids[CHOOSE i \in kept :
                            Cardinality({j \in kept : j <= i}) = r]])
    IN  IF initial_ids = << >> THEN {}
        ELSE ordered({i \in 1 .. Len(initial_ids) :
                         i = 1 \/ initial_ids[i] # initial_ids[i - 1]})

\* connectivity returning every point of the cut surface
RegionOf_all(S, cells) == UNION {CellTable[c] : c \in cells}

\* the points of the connected piece of the cut surface around S: faces
\* are connected through the vertices they share
RECURSIVE RegionOf(_, _)
RegionOf(S, cells) ==
    LET S2 == S \cup UNION {CellTable[c] : c \in {k \in cells : CellTable[k] \cap S # {}}}
    IN  IF S2 = S THEN S ELSE RegionOf(S2, cells)

\* the displayed surface, as far as the extraction reads and writes it
Surface == [point_data |-> point_data, is_barrier |-> is_barrier, mesh |-> mesh]

\* get_selected_region() past its is_closed test: what it returns
\* (result), the tool and the surface it leaves. self.mesh is the dataset of
\* the target actor itself, so the arrays it sets are set on the displayed
\* surface.
CutRegion(T, M) ==
    LET \* the squared distance from vertex v to the seed, the point
        \* (c[1] / c[3], c[2] / c[3]), scaled by c[3]
        D(v, c) ==
            LET dx == c[3] * MeshPoints[v][1] - c[1]
                dy == c[3] * MeshPoints[v][2] - c[2]
            IN  dx * dx + dy * dy
        \* seed_coords = pts[0] if len(pts) > 0 else center
        seed(center, pts) == IF Len(pts) > 0 THEN pts[1] ELSE center
        seed_coords(center) == seed(center, ray_trace(M.mesh, center))
        \* extracted.find_closest_point(seed_coords)
        closest_idx(cut_points, c) ==
            CHOOSE v \in cut_points : \A w \in cut_points :
                D(v, c) < D(w, c) \/ (D(v, c) = D(w, c) /\ v <= w)
        \* a selection of fewer than 10 points is declined
        returned(final_selection) ==
            IF Cardinality(final_selection) < MinRegionPoints
            THEN NoRegion ELSE Patch(final_selection)
        \* connectivity('point_seed', closest_idx) on the cut surface
        connected(cut_cells, c) ==
            returned(RegionOf({closest_idx(UNION {CellTable[cid] : cid \in cut_cells}, c)},
                              cut_cells))
        \* a path point is a vertex, the nearest of its five candidates is
        \* that vertex, and its normal (0, 0, 1) passes the test against the
        \* loop normal: clean_path_ids is raw_path_points.
        \* threshold(0.5, invert=True): the faces none of whose vertices is
        \* a barrier vertex
        cut(raw_path_points, barrier_ids) ==
            [result |-> connected({cid \in M.mesh.cells : CellTable[cid] \cap barrier_ids = {}},
                                  seed_coords(PathCentre(raw_path_points))),
             surface |-> [M EXCEPT !.point_data = M.point_data \cup {"Normals", "is_barrier"},
                                   !.is_barrier = barrier_ids]]
        traced(fp) ==
            [tool |-> [T EXCEPT !.path_cache = fp.cache]] @@
            (IF Len(fp.pts) < 3 THEN [result |-> NoRegion, surface |-> M]
             ELSE cut(fp.pts, _make_barrier_watertight(M.mesh, fp.pts)))
    IN  traced(_get_full_path_points(T))

\* get_selected_region() without its is_closed test
get_selected_region_any_loop(T, M) == CutRegion(T, M)

\* get_selected_region(): an open loop is declined
get_selected_region(T, M) ==
    IF ~T.is_closed THEN [result |-> NoRegion, tool |-> T, surface |-> M]
    ELSE CutRegion(T, M)

\* ---------------------------------------------------------- command manager
\* the tool together with the stacks of the command manager
Session ==
    [tool |-> Tool, undo_stack |-> undo_stack, redo_stack |-> redo_stack,
     n_executed |-> n_executed]

SetSession(S) ==
    /\ SetTool(S.tool)
    /\ undo_stack' = S.undo_stack
    /\ redo_stack' = S.redo_stack
    /\ n_executed' = S.n_executed

\* CommandManager.execute that leaves the redo stack as it is
CommandManager_execute_keeping_redo(S, c) ==
    LET pushed(r) ==
            [tool |-> r.tool, undo_stack |-> Append(S.undo_stack, r.cmd),
             redo_stack |-> S.redo_stack, n_executed |-> S.n_executed + 1]
    IN  pushed(Execute(S.tool, c))

\* CommandManager.execute(command)
CommandManager_execute(S, c) ==
    LET pushed(r) ==
            [tool |-> r.tool, undo_stack |-> Append(S.undo_stack, r.cmd),
             redo_stack |-> << >>, n_executed |-> S.n_executed + 1]
    IN  pushed(Execute(S.tool, c))

\* CommandManager.undo()
CommandManager_undo(S) ==
    LET undone(r) ==
            [S EXCEPT !.tool = r.tool, !.undo_stack = Front(S.undo_stack),
                      !.redo_stack = Append(S.redo_stack, r.cmd)]
    IN  IF S.undo_stack = << >> THEN S
        ELSE undone(UndoCmd(S.tool, Last(S.undo_stack)))

\* CommandManager.redo()
CommandManager_redo(S) ==
    LET redone(r) ==
            [S EXCEPT !.tool = r.tool, !.undo_stack = Append(S.undo_stack, r.cmd),
                      !.redo_stack = Front(S.redo_stack)]
    IN  IF S.redo_stack = << >> THEN S
        ELSE redone(Execute(S.tool, Last(S.redo_stack)))

\* -------------------------------------------------------------- public API
\* add_node_at(world_pos, insert_idx)
add_node_at(S, world_pos, insert_idx) ==
    CommandManager_execute(S, BezierCmdAdd(S.tool, world_pos, insert_idx))

\* delete_node_cmd(actor)
delete_node_cmd(S, actor) ==
    CommandManager_execute(S, BezierCmdDelete(S.tool, actor))

\* close_loop()
close_loop(S) ==
    IF Len(S.tool.nodes) > 2 /\ ~S.tool.is_closed
    THEN CommandManager_execute(S, BezierCmdCloseLoop(S.tool))
    ELSE S

\* OnLeftDown with the pointer at hit_pos on the surface and on no handle:
\* resolve the insertion index, then append or insert
ClickMesh(S, hit_pos) ==
    LET resolved(r) == add_node_at([S EXCEPT !.tool.path_cache = r.cache], hit_pos, r.idx)
    IN  resolved(_resolve_insertion_index(S.tool, hit_pos))

\* ---------------------------------------------------------------- wizard
\* extract_selection(): a patch is added to the scene and the markup is
\* cleared. The session, the surface and the result of the call it leaves.
extract_selection(S, M) ==
    LET handled(r) ==
            [session |-> [S EXCEPT !.tool = IF r.result.kind = "patch"
                                            THEN clear_all_markup(r.tool) ELSE r.tool],
             surface |-> r.surface, result |-> r.result]
    IN  handled(get_selected_region(S.tool, M))

\* generate_base(): with a patch, and a base generated from it (generated),
\* one composite command adds the base and clears the markup
generate_base(S, M, generated) ==
    LET handled(r) ==
            [session |-> IF r.result.kind = "patch" /\ generated
                         THEN CommandManager_execute([S EXCEPT !.tool = r.tool],
                                  MultiCommand(<<AddMeshCommand, BezierCmdClear(r.tool)>>))
                         ELSE [S EXCEPT !.tool = r.tool],
             surface |-> r.surface, result |-> r.result]
    IN  handled(get_selected_region(S.tool, M))

\* toggle_papilla_tool(False): the patch, if any, is shown; then stop() and
\* clear_all_markup()
toggle_papilla_tool_off(S, M) ==
    LET handled(r) ==
            [session |-> [S EXCEPT !.tool = clear_all_markup(r.tool)],
             surface |-> r.surface, result |-> r.result]
    IN  handled(get_selected_region(S.tool, M))

\* ------------------------------------------------------------- the bounds
\* the model stops a session at MaxActors handles and at MaxHist commands
\* handed to execute()
WithinBounds(S) ==
    /\ Len(S.tool.actor_pos) <= MaxActors
    /\ S.n_executed <= MaxHist

\* a handler leaves session S, if S is within the bounds
Commit(S) == WithinBounds(S) /\ SetSession(S)

\* try_pick_node() for a pointer at position p: a handle of the sequence
\* shown at p, if there is one
PickableNodes(p) == {a \in Range(nodes) : MeshPoints[actor_pos[a]] = p}

UNCHANGED_drag == UNCHANGED <<active_node, is_dragging, drag_start_pid, drag_start_pos>>
UNCHANGED_surface == UNCHANGED <<point_data, is_barrier, region>>
UNCHANGED_mesh == UNCHANGED <<mesh, clean_path_ids>>
UNCHANGED_attachment ==
    UNCHANGED <<app_active_actor, target_actor, locator, interactor_style, prev_style>>

\* the tool's style is on the interactor: pointer and key events reach it
Attached == interactor_style = "bezier"

\* ------------------------------------------------------- interactor style
\* BezierInteractorStyle.OnLeftDown, the pointer on a handle: start a drag
OnLeftDown_node(p) ==
    \E picked_node \in PickableNodes(p) :
        /\ Attached
        /\ active_node' = picked_node
        /\ is_dragging' = TRUE
        /\ drag_start_pos' = actor_pos[picked_node]
        /\ drag_start_pid' = node_ids[IndexOf(nodes, picked_node)]
        /\ UNCHANGED <<nodes, node_ids, is_closed, path_cache, actor_pos, plotter,
                       undo_stack, redo_stack, n_executed>>
        /\ UNCHANGED_surface
        /\ UNCHANGED_attachment
        /\ UNCHANGED_mesh

\* BezierInteractorStyle.OnLeftDown, the pointer on the surface and on no
\* handle: append or insert
OnLeftDown_mesh(p) ==
    /\ Attached /\ locator
    /\ PickableNodes(p) = {}
    /\ Commit(ClickMesh(Session, p))
    /\ UNCHANGED_drag
    /\ UNCHANGED_surface
    /\ UNCHANGED_attachment
    /\ UNCHANGED_mesh

\* OnMouseMove storing the snapped vertex in the anchor as the handle moves
OnMouseMove_committing(p) ==
    /\ Attached /\ locator
    /\ is_dragging /\ active_node # 0
    /\ actor_pos' = [actor_pos EXCEPT ![active_node] = find_closest_point(p)]
    /\ node_ids' = [node_ids EXCEPT ![IndexOf(nodes, active_node)] = find_closest_point(p)]
    /\ UNCHANGED <<nodes, is_closed, path_cache, plotter, undo_stack, redo_stack, n_executed>>
    /\ UNCHANGED_drag
    /\ UNCHANGED_surface
    /\ UNCHANGED_attachment
    /\ UNCHANGED_mesh

\* BezierInteractorStyle.OnMouseMove during a drag: drag_active_node_visual
OnMouseMove(p) ==
    /\ Attached /\ locator
    /\ is_dragging /\ active_node # 0
    /\ actor_pos' = [actor_pos EXCEPT ![active_node] = find_closest_point(p)]
    /\ UNCHANGED <<nodes, node_ids, is_closed, path_cache, plotter, undo_stack, redo_stack, n_executed>>
    /\ UNCHANGED_drag
    /\ UNCHANGED_surface
    /\ UNCHANGED_attachment
    /\ UNCHANGED_mesh

\* OnLeftUp issuing a Move whether or not the vertex has changed
OnLeftUp_always_moves ==
    /\ Attached
    /\ is_dragging /\ active_node # 0
    /\ LET final_pos == actor_pos[active_node]
           refreshed(S) == [S EXCEPT !.tool = update_curve(S.tool)]
           released(end_pid) ==
               Commit(refreshed(
                   CommandManager_execute(Session,
                       BezierCmdMove(Tool, active_node, drag_start_pos, final_pos,
                                     drag_start_pid, end_pid))))
       IN  released(find_closest_point(MeshPoints[final_pos]))
    /\ active_node' = 0
    /\ is_dragging' = FALSE
    /\ UNCHANGED <<drag_start_pid, drag_start_pos>>
    /\ UNCHANGED_surface
    /\ UNCHANGED_attachment
    /\ UNCHANGED_mesh

\* BezierInteractorStyle.OnLeftUp during a drag
OnLeftUp ==
    /\ Attached
    /\ is_dragging /\ active_node # 0
    /\ LET final_pos == actor_pos[active_node]
           \* self.tool.update_curve(), whether a command was issued or not
           refreshed(S) == [S EXCEPT !.tool = update_curve(S.tool)]
           released(end_pid) ==
               Commit(refreshed(
                   IF drag_start_pid # end_pid
                   THEN CommandManager_execute(Session,
                            BezierCmdMove(Tool, active_node, drag_start_pos, final_pos,
                                          drag_start_pid, end_pid))
                   ELSE [Session EXCEPT !.tool.actor_pos[active_node] = end_pid]))
       IN  released(find_closest_point(MeshPoints[final_pos]))
    /\ active_node' = 0
    /\ is_dragging' = FALSE
    /\ UNCHANGED <<drag_start_pid, drag_start_pos>>
    /\ UNCHANGED_surface
    /\ UNCHANGED_attachment
    /\ UNCHANGED_mesh

\* handle_right_click() with the pointer on the handle node: the entries of
\* the menu it shows
handle_right_click(T, node) ==
    {"Delete Point"} \cup
    (IF IndexOf(T.nodes, node) - 1 = Len(T.nodes) - 1 THEN {"Close Loop"} ELSE {})

\* handle_right_click, menu entry "Delete Point" on the handle under p
MenuDeletePoint(p) ==
    \E node \in PickableNodes(p) :
        /\ Attached
        /\ "Delete Point" \in handle_right_click(Tool, node)
        /\ Commit(delete_node_cmd(Session, node))
        /\ UNCHANGED_drag
        /\ UNCHANGED_surface
        /\ UNCHANGED_attachment
        /\ UNCHANGED_mesh

\* handle_right_click, menu entry "Close Loop", there for the last handle
MenuCloseLoop(p) ==
    \E node \in PickableNodes(p) :
        /\ Attached
        /\ "Close Loop" \in handle_right_click(Tool, node)
        /\ Commit(close_loop(Session))
        /\ UNCHANGED_drag
        /\ UNCHANGED_surface
        /\ UNCHANGED_attachment
        /\ UNCHANGED_mesh

\* handle_key(key), active being tool.active_node (0 is None): the session
\* it leaves. Return closes the loop; Delete, with anchors in the store,
\* deletes the active anchor, or the last one; other keys do nothing
handle_key(S, active, key) ==
    IF key \in {"Return", "Enter"} THEN close_loop(S)
    ELSE IF key \in {"Delete", "BackSpace"} /\ S.tool.nodes # << >>
    THEN delete_node_cmd(S, IF active # 0 THEN active ELSE Last(S.tool.nodes))
    ELSE S

\* handle_key("Return")
KeyReturn ==
    /\ Attached
    /\ Commit(handle_key(Session, active_node, "Return"))
    /\ UNCHANGED_drag
    /\ UNCHANGED_surface
    /\ UNCHANGED_attachment
    /\ UNCHANGED_mesh

\* handle_key("Delete") with anchors in the store
KeyDelete ==
    /\ Attached
    /\ nodes # << >>
    /\ Commit(handle_key(Session, active_node, "Delete"))
    /\ UNCHANGED_drag
    /\ UNCHANGED_surface
    /\ UNCHANGED_attachment
    /\ UNCHANGED_mesh

\* the host's Undo action
Undo ==
    /\ SetSession(CommandManager_undo(Session))
    /\ UNCHANGED_drag
    /\ UNCHANGED_surface
    /\ UNCHANGED_attachment
    /\ UNCHANGED_mesh

\* the host's Redo action
Redo ==
    /\ Commit(CommandManager_redo(Session))
    /\ UNCHANGED_drag
    /\ UNCHANGED_surface
    /\ UNCHANGED_attachment
    /\ UNCHANGED_mesh

\* the wizard's clear_papilla_mark: stop(), then clear_all_markup()
ClearAllMarkup ==
    /\ SetAttachment(stop(Attachment))
    /\ SetTool(clear_all_markup(Tool))
    /\ UNCHANGED <<undo_stack, redo_stack, n_executed>>
    /\ UNCHANGED <<is_dragging, drag_start_pid, drag_start_pos>>
    /\ UNCHANGED_surface
    /\ UNCHANGED app_active_actor
    /\ UNCHANGED_mesh

\* what a handler of the wizard leaves of the surface and of its call
SetSurface(h) ==
    /\ region' = h.result
    /\ point_data' = h.surface.point_data
    /\ is_barrier' = h.surface.is_barrier

\* the wizard's "extract selection" button
ExtractSelection ==
    \E h \in {extract_selection(Session, Surface)} :
        /\ SetSession(h.session)
        /\ SetSurface(h)
        /\ UNCHANGED_drag
        /\ UNCHANGED_attachment
        /\ UNCHANGED_mesh

\* the wizard's "generate base" button
GenerateBase(generated) ==
    \E h \in {generate_base(Session, Surface, generated)} :
        /\ Commit(h.session)
        /\ SetSurface(h)
        /\ UNCHANGED_drag
        /\ UNCHANGED_attachment
        /\ UNCHANGED_mesh

\* the wizard's papilla button, toggled off
TogglePapillaOff ==
    \E h \in {toggle_papilla_tool_off(Session, Surface)} :
        /\ SetSession(h.session)
        /\ SetSurface(h)
        /\ SetAttachment(stop(Attachment))
        /\ UNCHANGED <<is_dragging, drag_start_pid, drag_start_pos>>
        /\ UNCHANGED app_active_actor
        /\ UNCHANGED_mesh

\* the manual border button with a stop() that resets the store as well
ToggleBorderTool_clearing(checked) ==
    /\ SetAttachment(IF checked
                     THEN (IF ~app_active_actor THEN Attachment
                           ELSE start(Attachment, app_active_actor))
                     ELSE stop(Attachment))
    /\ point_data' = IF checked /\ app_active_actor
                     THEN start(Attachment, app_active_actor).point_data
                     ELSE point_data
    /\ SetTool(IF checked THEN Tool ELSE _internal_hard_reset(Tool, FALSE))
    /\ UNCHANGED <<undo_stack, redo_stack, n_executed>>
    /\ UNCHANGED <<is_dragging, drag_start_pid, drag_start_pos>>
    /\ UNCHANGED <<is_barrier, region, app_active_actor>>
    /\ UNCHANGED_mesh

\* the wizard's manual border button: checked, start() if the host has an
\* active surface; unchecked, stop()
ToggleBorderTool(checked) ==
    /\ SetAttachment(IF checked
                     THEN (IF ~app_active_actor THEN Attachment
                           ELSE start(Attachment, app_active_actor))
                     ELSE stop(Attachment))
    /\ point_data' = IF checked /\ app_active_actor
                     THEN start(Attachment, app_active_actor).point_data
                     ELSE point_data
    /\ UNCHANGED <<nodes, node_ids, is_closed, path_cache, actor_pos, plotter,
                   undo_stack, redo_stack, n_executed>>
    /\ UNCHANGED <<is_dragging, drag_start_pid, drag_start_pos>>
    /\ UNCHANGED <<is_barrier, region, app_active_actor>>
    /\ UNCHANGED_mesh

\* ------------------------------------------------------------ the session
\* the tool and the stacks after construction and start()
NewSession ==
    [tool |-> [nodes |-> << >>, node_ids |-> << >>, is_closed |-> FALSE,
               path_cache |-> EmptyCache, actor_pos |-> << >>,
               plotter |-> NewPlotter],
     undo_stack |-> << >>, redo_stack |-> << >>, n_executed |-> 0]

\* a session in which the user has clicked the surface at hits[1 .. n]
RECURSIVE Clicked(_, _)
Clicked(hits, n) ==
    IF n = 0 THEN NewSession ELSE ClickMesh(Clicked(hits, n - 1), hits[n])

\* three corners clicked, in order
CornerClicks == <<Corners[1], Corners[2], Corners[4]>>

\* a session in which the user has clicked the surface at hits, and has
\* then pressed the Return key if closed
Drawn(hits, closed) ==
    LET entered(S) == IF closed THEN close_loop(S) ELSE S
    IN  entered(Clicked(hits, Len(hits)))

\* a session starts empty, or after clicks on three corners, or after these
\* clicks and the Return key
InitialSessions ==
    {NewSession} \cup {Drawn(CornerClicks, closed) : closed \in BOOLEAN}

Init ==
    /\ \E S \in InitialSessions :
        /\ nodes = S.tool.nodes
        /\ node_ids = S.tool.node_ids
        /\ is_closed = S.tool.is_closed
        /\ path_cache = S.tool.path_cache
        /\ actor_pos = S.tool.actor_pos
        /\ plotter = S.tool.plotter
        /\ undo_stack = S.undo_stack
        /\ redo_stack = S.redo_stack
        /\ n_executed = 0
    /\ active_node = 0
    /\ is_dragging = FALSE
    /\ drag_start_pid = -1
    /\ drag_start_pos = -1
    /\ point_data = {"Normals"}
    /\ is_barrier = {}
    /\ region = NotCalled
    /\ app_active_actor = TRUE
    /\ target_actor = TRUE
    /\ locator = TRUE
    /\ interactor_style = "bezier"
    /\ prev_style = "trackball"
    /\ mesh = GridMesh
    /\ clean_path_ids = << >>

\* a session of the started tool, up to the stop() that ends it: a drag,
\* once begun, runs to its pointer-up before another event is handled
Next ==
    \/ ~is_dragging /\ \E p \in HitPositions : OnLeftDown_node(p)
    \/ ~is_dragging /\ \E p \in HitPositions : OnLeftDown_mesh(p)
    \/ \E p \in HitPositions : OnMouseMove(p)
    \/ OnLeftUp
    \/ ~is_dragging /\ \E p \in HitPositions : MenuDeletePoint(p)
    \/ ~is_dragging /\ \E p \in HitPositions : MenuCloseLoop(p)
    \/ ~is_dragging /\ KeyReturn
    \/ ~is_dragging /\ KeyDelete
    \/ ~is_dragging /\ Undo
    \/ ~is_dragging /\ Redo
    \/ ~is_dragging /\ ClearAllMarkup

Spec == Init /\ [][Next]_vars

\* --------------------------------------------- the session of an extraction
\* the four corners clicked, in order
SquareClicks == <<Corners[1], Corners[2], Corners[3], Corners[4]>>

\* a session in which a loop has been drawn, or is about to be: nothing yet,
\* three corners open, three corners closed, four corners closed, the small
\* square closed
RegionSessions ==
    {NewSession} \cup
    {Drawn(loop[1], loop[2]) :
        loop \in {<<CornerClicks, FALSE>>, <<CornerClicks, TRUE>>,
                  <<SquareClicks, TRUE>>, <<SmallSquare, TRUE>>}}

InitRegion ==
    /\ \E S \in RegionSessions :
        /\ nodes = S.tool.nodes
        /\ node_ids = S.tool.node_ids
        /\ is_closed = S.tool.is_closed
        /\ path_cache = S.tool.path_cache
        /\ actor_pos = S.tool.actor_pos
        /\ plotter = S.tool.plotter
        /\ undo_stack = S.undo_stack
        /\ redo_stack = S.redo_stack
        /\ n_executed = 0
    /\ active_node = 0
    /\ is_dragging = FALSE
    /\ drag_start_pid = -1
    /\ drag_start_pos = -1
    /\ point_data = {"Normals"}
    /\ is_barrier = {}
    /\ region = NotCalled
    /\ app_active_actor = TRUE
    /\ target_actor = TRUE
    /\ locator = TRUE
    /\ interactor_style = "bezier"
    /\ prev_style = "trackball"
    /\ mesh = GridMesh
    /\ clean_path_ids = << >>

NextRegion ==
    \/ ExtractSelection
    \/ \E generated \in BOOLEAN : GenerateBase(generated)
    \/ TogglePapillaOff
    \/ ClearAllMarkup
    \/ KeyReturn
    \/ Undo
    \/ Redo

SpecRegion == InitRegion /\ [][NextRegion]_vars

\* the same sessions on the surface with a hole at its centre
InitHole ==
    /\ \E S \in RegionSessions :
        /\ nodes = S.tool.nodes
        /\ node_ids = S.tool.node_ids
        /\ is_closed = S.tool.is_closed
        /\ path_cache = S.tool.path_cache
        /\ actor_pos = S.tool.actor_pos
        /\ plotter = S.tool.plotter
        /\ undo_stack = S.undo_stack
        /\ redo_stack = S.redo_stack
        /\ n_executed = 0
    /\ active_node = 0
    /\ is_dragging = FALSE
    /\ drag_start_pid = -1
    /\ drag_start_pos = -1
    /\ point_data = {"Normals"}
    /\ is_barrier = {}
    /\ region = NotCalled
    /\ app_active_actor = TRUE
    /\ target_actor = TRUE
    /\ locator = TRUE
    /\ interactor_style = "bezier"
    /\ prev_style = "trackball"
    /\ mesh = HoledMesh
    /\ clean_path_ids = << >>

SpecHole == InitHole /\ [][NextRegion]_vars

\* ------------------------------------------ the session of a tool's lifecycle
\* the host's set_active_actor(actor): a surface becomes active, or none is
SetActiveActor(actor) ==
    /\ app_active_actor' = actor
    /\ UNCHANGED <<nodes, node_ids, is_closed, path_cache, actor_pos, plotter,
                   undo_stack, redo_stack, n_executed>>
    /\ UNCHANGED <<target_actor, locator, interactor_style, prev_style>>
    /\ UNCHANGED_drag
    /\ UNCHANGED_surface
    /\ UNCHANGED_mesh

\* start() called as it is, whatever the host's active surface
Start ==
    /\ SetAttachment(start(Attachment, app_active_actor))
    /\ point_data' = start(Attachment, app_active_actor).point_data
    /\ UNCHANGED <<nodes, node_ids, is_closed, path_cache, actor_pos, plotter,
                   undo_stack, redo_stack, n_executed>>
    /\ UNCHANGED <<is_dragging, drag_start_pid, drag_start_pos>>
    /\ UNCHANGED <<is_barrier, region, app_active_actor>>
    /\ UNCHANGED_mesh

\* the styles the host has on the interactor while the tool is not running:
\* the trackball style, or the style of the wizard's sculpting tool
HostStyles == {"trackball", "sculpt"}

\* the tool as constructed, or stopped after a curve was drawn; the host
\* with or without an active surface, sculpting or not
InitLifecycle ==
    /\ \E S \in InitialSessions :
        /\ nodes = S.tool.nodes
        /\ node_ids = S.tool.node_ids
        /\ is_closed = S.tool.is_closed
        /\ path_cache = S.tool.path_cache
        /\ actor_pos = S.tool.actor_pos
        /\ plotter = S.tool.plotter
        /\ undo_stack = S.undo_stack
        /\ redo_stack = S.redo_stack
        /\ n_executed = 0
        /\ target_actor = (S # NewSession)
        /\ prev_style = IF S = NewSession THEN "none" ELSE "trackball"
    /\ active_node = 0
    /\ is_dragging = FALSE
    /\ drag_start_pid = -1
    /\ drag_start_pos = -1
    /\ point_data = {"Normals"}
    /\ is_barrier = {}
    /\ region = NotCalled
    /\ app_active_actor \in BOOLEAN
    /\ locator = FALSE
    /\ interactor_style \in HostStyles
    /\ mesh = GridMesh
    /\ clean_path_ids = << >>

NextLifecycle ==
    \/ \E actor \in BOOLEAN : SetActiveActor(actor)
    \/ Start
    \/ \E checked \in BOOLEAN : ToggleBorderTool(checked)
    \/ \E p \in HitPositions : OnLeftDown_mesh(p)
    \/ KeyReturn
    \/ ClearAllMarkup
    \/ Undo
    \/ Redo

SpecLifecycle == InitLifecycle /\ [][NextLifecycle]_vars

\* ------------------------------------------- the repair of a barrier path
\* _make_barrier_watertight(clean_path_ids) on the mesh of the tool: the
\* barrier it returns is what the extraction writes to the surface
MakeBarrierWatertight ==
    /\ is_barrier' = _make_barrier_watertight(mesh, clean_path_ids)
    /\ point_data' = point_data \cup {"is_barrier"}
    /\ UNCHANGED region
    /\ UNCHANGED <<nodes, node_ids, is_closed, path_cache, actor_pos, plotter,
                   undo_stack, redo_stack, n_executed>>
    /\ UNCHANGED_drag
    /\ UNCHANGED_attachment
    /\ UNCHANGED_mesh

\* another path is handed to the repair
SetPath(ids) ==
    /\ clean_path_ids' = ids
    /\ is_barrier' = {}
    /\ point_data' = point_data \ {"is_barrier"}
    /\ UNCHANGED <<mesh, region>>
    /\ UNCHANGED <<nodes, node_ids, is_closed, path_cache, actor_pos, plotter,
                   undo_stack, redo_stack, n_executed>>
    /\ UNCHANGED_drag
    /\ UNCHANGED_attachment

\* the paths handed to the repair: two barrier points of the strip, the
\* first of them at its left end; the first of them repeated; three barrier
\* points, the last of them near the right end of either row
BarrierPaths ==
    {<<s, e>> : s \in {0, 1, StripLen}, e \in 0 .. (2 * StripLen - 1)}
    \cup {<<0, 0, e>> : e \in 0 .. (2 * StripLen - 1)}
    \cup {<<0, e, e2>> : e \in 0 .. (2 * StripLen - 1),
                         e2 \in {StripLen - 3, 2 * StripLen - 2}}

InitBarrier ==
    /\ nodes = << >> /\ node_ids = << >> /\ is_closed = FALSE
    /\ path_cache = EmptyCache /\ actor_pos = << >>
    /\ plotter = NewPlotter
    /\ undo_stack = << >> /\ redo_stack = << >> /\ n_executed = 0
    /\ active_node = 0
    /\ is_dragging = FALSE
    /\ drag_start_pid = -1
    /\ drag_start_pos = -1
    /\ point_data = {"Normals"}
    /\ is_barrier = {}
    /\ region = NotCalled
    /\ app_active_actor = TRUE
    /\ target_actor = TRUE
    /\ locator = TRUE
    /\ interactor_style = "bezier"
    /\ prev_style = "trackball"
    /\ mesh = StripMesh
    /\ clean_path_ids \in BarrierPaths

NextBarrier ==
    \/ MakeBarrierWatertight
    \/ \E ids \in BarrierPaths : SetPath(ids)

SpecBarrier == InitBarrier /\ [][NextBarrier]_vars

\* ------------------------------------------ the session of an insertion
\* a loop drawn from the second corner: its closing segment, from the first
\* corner back to the second, runs along the bottom edge of the surface
EdgeClicks == <<Corners[2], Corners[4], Corners[1]>>

InitInsert ==
    /\ \E S \in {Drawn(EdgeClicks, closed) : closed \in BOOLEAN} :
        /\ nodes = S.tool.nodes
        /\ node_ids = S.tool.node_ids
        /\ is_closed = S.tool.is_closed
        /\ path_cache = S.tool.path_cache
        /\ actor_pos = S.tool.actor_pos
        /\ plotter = S.tool.plotter
        /\ undo_stack = S.undo_stack
        /\ redo_stack = S.redo_stack
        /\ n_executed = 0
    /\ active_node = 0
    /\ is_dragging = FALSE
    /\ drag_start_pid = -1
    /\ drag_start_pos = -1
    /\ point_data = {"Normals"}
    /\ is_barrier = {}
    /\ region = NotCalled
    /\ app_active_actor = TRUE
    /\ target_actor = TRUE
    /\ locator = TRUE
    /\ interactor_style = "bezier"
    /\ prev_style = "trackball"
    /\ mesh = GridMesh
    /\ clean_path_ids = << >>

\* clicks on the surface, the Return and Delete keys, undo and redo
NextInsert ==
    \/ \E p \in HitPositions : OnLeftDown_mesh(p)
    \/ KeyReturn
    \/ KeyDelete
    \/ Undo
    \/ Redo

SpecInsert == InitInsert /\ [][NextInsert]_vars

\* ------------------------------------- the session of a drag with key events
\* the pointer goes down on a handle, moves and goes up, and the Delete key,
\* undo and redo, the wizard's clear and the stop() of its border button are
\* handled at any time, during the drag as well
NextDrag ==
    \/ ~is_dragging /\ \E p \in HitPositions : OnLeftDown_node(p)
    \/ \E p \in HitPositions : OnMouseMove(p)
    \/ OnLeftUp
    \/ KeyDelete
    \/ Undo
    \/ Redo
    \/ ClearAllMarkup
    \/ ToggleBorderTool(FALSE)

SpecDrag == Init /\ [][NextDrag]_vars

\* ------------------------------------------------- the session of the scene
\* three corners clicked, and then perhaps the first anchor deleted from
\* its context menu; the scene library of either kind
InitScene ==
    /\ \E S \in {Drawn(CornerClicks, FALSE),
                 delete_node_cmd(Drawn(CornerClicks, FALSE), 1)} :
        /\ nodes = S.tool.nodes
        /\ node_ids = S.tool.node_ids
        /\ is_closed = S.tool.is_closed
        /\ path_cache = S.tool.path_cache
        /\ actor_pos = S.tool.actor_pos
        /\ plotter \in Builds(S.tool.plotter)
        /\ undo_stack = S.undo_stack
        /\ redo_stack = S.redo_stack
        /\ n_executed = 0
    /\ active_node = 0
    /\ is_dragging = FALSE
    /\ drag_start_pid = -1
    /\ drag_start_pos = -1
    /\ point_data = {"Normals"}
    /\ is_barrier = {}
    /\ region = NotCalled
    /\ app_active_actor = TRUE
    /\ target_actor = TRUE
    /\ locator = TRUE
    /\ interactor_style = "bezier"
    /\ prev_style = "trackball"
    /\ mesh = GridMesh
    /\ clean_path_ids = << >>

\* clicks on the surface, the Delete Point entry of the menu, the wizard's
\* clear, undo and redo
NextScene ==
    \/ \E p \in HitPositions : OnLeftDown_mesh(p)
    \/ \E p \in HitPositions : MenuDeletePoint(p)
    \/ ClearAllMarkup
    \/ Undo
    \/ Redo

SpecScene == InitScene /\ [][NextScene]_vars

\* ================================================================== claims
\* the anchor store as a user of the tool observes it
SameStore(T1, T2) == T1.node_ids = T2.node_ids /\ T1.is_closed = T2.is_closed
\* the same handles on the same vertices, and the same closed flag
SameAnchors(T1, T2) == T1.nodes = T2.nodes /\ SameStore(T1, T2)

\* ---- C1
\* the longest command sequence the round trip is checked for
MaxSeq == 2

\* the commands the tool can hand to the command manager in session S, by
\* kind: Add (append or insert, as a click resolves it), Delete, Move,
\* CloseLoop (when close_loop() issues one), Clear
ToolCommands(S) ==
    LET T == S.tool
    IN  << {BezierCmdAdd(T, p, _resolve_insertion_index(T, p).idx) : p \in HitPositions},
           {BezierCmdDelete(T, a) : a \in Range(T.nodes)},
           UNION {{BezierCmdMove(T, a, T.actor_pos[a], find_closest_point(p),
                                 T.node_ids[IndexOf(T.nodes, a)], find_closest_point(p)) :
                       p \in {q \in HitPositions :
                                 find_closest_point(q) # T.node_ids[IndexOf(T.nodes, a)]}} :
                  a \in Range(T.nodes)},
           IF Len(T.nodes) > 2 /\ ~T.is_closed THEN {BezierCmdCloseLoop(T)} ELSE {},
           {BezierCmdClear(T)} >>

\* n times CommandManager.undo()
RECURSIVE UndoAll(_, _)
UndoAll(S, n) == IF n = 0 THEN S ELSE UndoAll(CommandManager_undo(S), n - 1)

\* S is session S0 after k commands: undoing the k restores the store of
\* S0, and so does every longer sequence, up to n commands
RECURSIVE RoundTrips(_, _, _, _)
RoundTrips(S0, S, k, n) ==
    /\ SameStore(UndoAll(S, k).tool, S0.tool)
    /\ k < n =>
         \A kind \in 1 .. 5 : \A c \in ToolCommands(S)[kind] :
             RoundTrips(S0, CommandManager_execute(S, c), k + 1, n)

\* C1: from every reachable state, every sequence of Add, Delete, Move,
\* CloseLoop and Clear commands executed through the command manager and then
\* undone in reverse order leaves the vertex-id sequence and the closed flag
\* as they were before the sequence. Refuted: an Add that resolves to the
\* vertex of the last anchor adds nothing, and its undo removes that anchor.
C1_UndoRestoresStore == RoundTrips(Session, Session, 0, MaxSeq)

\* ---- C2
\* C2: in every reachable state, is_closed holds only if there are at least
\* 3 anchors. Refuted: redo of a CloseLoop after clear_all_markup() closes an
\* empty store.
C2_ClosedHasThreeAnchors == is_closed => Len(nodes) >= 3

\* ---- C3
\* C3: appending a position that resolves to the vertex of the last anchor
\* adds no anchor (handles and vertex ids unchanged, the last anchor
\* returned); so of two appends of the same position in a row the second
\* adds nothing, and the two together add at most one anchor.
C3_IdempotentAppend ==
    \A p \in HitPositions \cup {MeshPoints[v] : v \in AnchorVertices} :
        LET first == _internal_add_node(Tool, p, -1)
            second == _internal_add_node(first.tool, p, -1)
            repeat == node_ids # << >> /\ Last(node_ids) = find_closest_point(p)
        IN  /\ repeat => /\ first.tool.nodes = nodes
                         /\ first.tool.node_ids = node_ids
                         /\ first.actor = Last(nodes)
                         /\ first.pid = Last(node_ids)
            /\ ~repeat => first.tool.node_ids = Append(node_ids, find_closest_point(p))
            /\ second.tool.nodes = first.tool.nodes
            /\ second.tool.node_ids = first.tool.node_ids
            /\ second.actor = first.actor
            /\ second.pid = first.pid

\* a second Add of the same vertex has been executed on top of the first:
\* both commands hold the one handle there is
C3_Witness ==
    /\ Len(undo_stack) >= 2
    /\ Last(undo_stack).type = "Add" /\ Last(Front(undo_stack)).type = "Add"
    /\ Last(undo_stack).insert_idx = -1
    /\ Last(undo_stack).added_actor = Last(Front(undo_stack)).added_actor
    /\ nodes = <<Last(undo_stack).added_actor>>

\* ---- C4
\* C4: close_loop() with fewer than 3 anchors issues no command and leaves
\* is_closed false; on an open store of 3 or more anchors it issues exactly
\* one CloseLoop command and is_closed becomes true. Refuted where C2 is: a
\* closed store of fewer than 3 anchors stays closed.
C4_CloseLoopGuard ==
    LET S == close_loop(Session)
    IN  /\ Len(nodes) < 3 =>
             /\ S.undo_stack = undo_stack /\ S.redo_stack = redo_stack
             /\ ~S.tool.is_closed
        /\ (Len(nodes) >= 3 /\ ~is_closed) =>
             /\ Len(S.undo_stack) = Len(undo_stack) + 1
             /\ Front(S.undo_stack) = undo_stack
             /\ Last(S.undo_stack).type = "CloseLoop"
             /\ S.tool.is_closed

\* ---- C5
\* C5: removing an anchor so that fewer than 3 remain leaves is_closed
\* false (so from a closed loop of exactly 3, for each of its anchors), and
\* removing an anchor from a closed loop of 4 or more leaves it closed.
C5_ShrinkClearsClosed ==
    \A a \in Range(nodes) :
        LET T == _internal_remove_node_by_actor(Tool, a)
        IN  /\ Len(T.nodes) = Len(nodes) - 1
            /\ Len(T.nodes) < 3 => ~T.is_closed
            /\ (is_closed /\ Len(nodes) >= 4) => T.is_closed

\* a Delete has taken an anchor from a closed loop of 3, which is now open
C5_Witness ==
    /\ undo_stack # << >>
    /\ Last(undo_stack).type = "Delete"
    /\ Last(undo_stack).was_closed /\ Last(undo_stack).idx # -1
    /\ Len(nodes) = 2 /\ ~is_closed

\* ---- C6
\* C6: in every reachable state no two anchors adjacent in the sequence have
\* the same vertex id. Refuted: a click next to an anchor, on the curve,
\* inserts a second anchor on that anchor's vertex.
C6_NoAdjacentDuplicates ==
    \A i \in 1 .. (Len(node_ids) - 1) : node_ids[i] # node_ids[i + 1]

\* ---- C7
\* C7: for every pair of anchor indices (i, j), whatever the cache holds,
\* _get_segment_points(i, j) returns a sequence that starts at the point of
\* anchor i and ends at the point of anchor j. Refuted: the cache key is the
\* sorted vertex pair, so the sequence stored for (i, j) is returned for
\* (j, i) as well.
C7_SegmentEndpoints ==
    \A i, j \in 0 .. (Len(nodes) - 1) :
        LET seg == _get_segment_points(Tool, i, j).pts
        IN  seg[1] = node_ids[i + 1] /\ Last(seg) = node_ids[j + 1]

\* ---- C8
\* C8: no call of get_selected_region changes the displayed surface: its
\* per-vertex arrays are after the call what they were before. Refuted: the
\* barrier array is set on the dataset of the displayed actor.
C8_SurfaceUntouched == [][point_data' = point_data /\ is_barrier' = is_barrier]_vars

C10_AbsentTargetNoOp ==
    /\ \A a \in 1 .. Len(actor_pos) : a \notin Range(nodes) =>
         /\ _internal_remove_node_by_actor(Tool, a) = Tool
         /\ LET d == BezierCmdDelete_execute(Tool, BezierCmdDelete(Tool, a))
            IN  d.tool = Tool /\ BezierCmdDelete_undo(d.tool, d.cmd).tool = Tool
         /\ \A v \in AnchorVertices :
              SameAnchors(_internal_update_node_pos(Tool, a, v, v), Tool)
    /\ (/\ undo_stack # << >>
        /\ \/ /\ Last(undo_stack).type = "Add"
              /\ Last(undo_stack).added_actor \notin Range(nodes)
           \/ /\ Last(undo_stack).type = "Move"
              /\ Last(undo_stack).actor \notin Range(nodes))
       => SameAnchors(CommandManager_undo(Session).tool, Tool)
    /\ (/\ redo_stack # << >>
        /\ Last(redo_stack).type \in {"Delete", "Move"}
        /\ Last(redo_stack).actor \notin Range(nodes))
       => SameAnchors(CommandManager_redo(Session).tool, Tool)

\* two Adds that held the same handle have both been undone: the second
\* undo found its handle gone
C10_Witness ==
    /\ Len(redo_stack) >= 2
    /\ Last(redo_stack).type = "Add" /\ Last(Front(redo_stack)).type = "Add"
    /\ Last(redo_stack).added_actor = Last(Front(redo_stack)).added_actor
    /\ Last(redo_stack).added_actor \notin Range(nodes)

\* ---- C11
\* the sorted vertex pairs of the segments the curve of tool T is made of
SegmentKeys(T) ==
    LET count == Len(T.nodes)
        rng == IF T.is_closed THEN count ELSE count - 1
    IN  IF count < 2 THEN {}
        ELSE {CacheKey(T.node_ids[i + 1], T.node_ids[((i + 1) % count) + 1]) :
                 i \in 0 .. (rng - 1)}

C12_DragGesture ==
    /\ [](is_dragging =>
            /\ active_node \in Range(nodes)
            /\ drag_start_pid = node_ids[IndexOf(nodes, active_node)]
            /\ drag_start_pos = drag_start_pid)
    /\ [][(is_dragging /\ ~is_dragging') =>
            /\ active_node' = 0
            /\ nodes' = nodes
            /\ IF find_closest_point(MeshPoints[actor_pos[active_node]]) # drag_start_pid
               THEN /\ Front(undo_stack') = undo_stack
                    /\ Len(undo_stack') = Len(undo_stack) + 1
                    /\ Last(undo_stack').type = "Move"
                    /\ Last(undo_stack').actor = active_node
                    /\ Last(undo_stack').old_pid = drag_start_pid
                    /\ Last(undo_stack').new_pid =
                           find_closest_point(MeshPoints[actor_pos[active_node]])
                    /\ node_ids'[IndexOf(nodes, active_node)] = Last(undo_stack').new_pid
                    /\ actor_pos'[active_node] = Last(undo_stack').new_pid
               ELSE /\ undo_stack' = undo_stack
                    /\ redo_stack' = redo_stack
                    /\ node_ids' = node_ids
                    /\ actor_pos'[active_node] = drag_start_pos
                    /\ actor_pos'[active_node] = node_ids[IndexOf(nodes, active_node)]
         ]_vars

\* a drag has ended on another vertex: one Move from the vertex recorded at
\* pointer-down is on the undo stack, and nothing is dragged or active
C12_Witness ==
    /\ ~is_dragging /\ active_node = 0
    /\ undo_stack # << >>
    /\ Last(undo_stack).type = "Move"
    /\ Last(undo_stack).old_pid = drag_start_pid
    /\ Last(undo_stack).new_pid # drag_start_pid
    /\ Last(undo_stack).actor \in Range(nodes)
    /\ node_ids[IndexOf(nodes, Last(undo_stack).actor)] = Last(undo_stack).new_pid

\* ---- C13
\* C13: stop() detaches the tool from interaction (the trackball style is on
\* the interactor, no locator, no active anchor) and leaves the handles, the
\* vertex ids and the closed flag as they were; a step that empties a store
\* of two or more anchors is the explicit clear, never the stop alone.
C13_StopKeepsAnchors ==
    /\ [](/\ stop(Attachment).interactor_style = "trackball"
          /\ ~stop(Attachment).locator
          /\ stop(Attachment).active_node = 0
          /\ stop(Attachment).target_actor = target_actor)
    /\ [][/\ ToggleBorderTool(FALSE) =>
               /\ nodes' = nodes /\ node_ids' = node_ids /\ is_closed' = is_closed
               /\ actor_pos' = actor_pos
               /\ undo_stack' = undo_stack /\ redo_stack' = redo_stack
               /\ interactor_style' = "trackball" /\ ~locator' /\ active_node' = 0
          /\ (Len(nodes) >= 2 /\ nodes' = << >>) => ClearAllMarkup
         ]_vars

\* the tool has been stopped with a closed loop in its store
C13_Witness ==
    /\ interactor_style = "trackball" /\ ~locator /\ active_node = 0
    /\ Len(nodes) >= 3 /\ is_closed
    /\ undo_stack # << >> /\ Last(undo_stack).type = "Add"

\* ---- C14
\* C14: start() with no active surface in the host is declined: it installs
\* no style and binds no surface and no locator, and the step changes
\* nothing at all: store, stacks and surface are what they were. So it is
\* for the wizard's button that calls it.
C14_StartDeclined ==
    /\ [](~app_active_actor => start(Attachment, app_active_actor) = Attachment)
    /\ [][(~app_active_actor /\ (Start \/ ToggleBorderTool(TRUE))) => UNCHANGED vars]_vars

\* the host has no active surface and the tool, stopped with anchors in its
\* store and a command undone, is not attached
C14_Witness ==
    /\ ~app_active_actor
    /\ interactor_style = "trackball" /\ ~locator
    /\ nodes # << >> /\ redo_stack # << >>
    /\ start(Attachment, app_active_actor) = Attachment

\* ---- C15
\* C15: when the seed ray meets no face of the surface, get_selected_region
\* returns None (no region). Refuted: the centre of the loop is then taken
\* as the seed and the extraction goes on.
C15_RayMissNoRegion ==
    LET missed(fp) == Len(fp.pts) >= 3 /\ ray_trace(mesh, PathCentre(fp.pts)) = << >>
    IN  (is_closed /\ missed(_get_full_path_points(Tool)))
            => get_selected_region(Tool, Surface).result = NoRegion

\* ---- C16
\* the cache of tool T holds what a rebuild from an empty cache would hold:
\* no entry of it was there before the rebuild
FreshCache(T) ==
    T.path_cache = update_curve([T EXCEPT !.path_cache = EmptyCache]).path_cache

\* C16: every operation that changes the anchor store (append, insert,
\* remove, restore, move, hard reset) clears the whole path cache: after it
\* the cache holds no entry computed before it, only what the refresh of
\* the curve has computed since. Refuted: an append clears nothing.
C16_StoreChangeClearsCache ==
    /\ \A p \in HitPositions \cup {Corners[3]} :
         LET appended(r) == r.tool.node_ids # node_ids => FreshCache(r.tool)
         IN  appended(_internal_add_node(Tool, p, -1))
    /\ \A p \in HitPositions : \A i \in 0 .. (Len(nodes) - 1) :
         FreshCache(_internal_add_node(Tool, p, i).tool)
    /\ \A a \in Range(nodes) :
         LET restored(c, T2) ==
                 FreshCache(T2) /\
                 FreshCache(_internal_restore_node(T2, c.actor, c.pid, c.idx, c.was_closed))
         IN  restored(BezierCmdDelete(Tool, a), _internal_remove_node_by_actor(Tool, a))
    /\ \A a \in Range(nodes) : \A v \in AnchorVertices :
         FreshCache(_internal_update_node_pos(Tool, a, v, v))
    /\ _internal_hard_reset(Tool, FALSE).path_cache = EmptyCache

\* ---- C17
\* C17: a Delete of the anchor at index i, executed and then undone, puts
\* the same handle with the same vertex id back at index i, leaves the
\* other anchors in their order and restores the closed flag to its value
\* before the deletion: for the first, a middle and the last anchor, on the
\* operations and through the command manager.
C17_DeleteUndoRestores ==
    \A a \in Range(nodes) :
        LET i == IndexOf(nodes, a)
            undone(d) ==
                /\ d.tool.nodes = RemoveAt(nodes, i)
                /\ d.tool.node_ids = RemoveAt(node_ids, i)
                /\ d.cmd.idx = i - 1 /\ d.cmd.pid = node_ids[i]
                /\ d.cmd.was_closed = is_closed
                /\ SameAnchors(BezierCmdDelete_undo(d.tool, d.cmd).tool, Tool)
                /\ BezierCmdDelete_undo(d.tool, d.cmd).tool.nodes[i] = a
            managed(S) ==
                /\ SameAnchors(CommandManager_undo(S).tool, Tool)
                /\ CommandManager_undo(S).undo_stack = undo_stack
                /\ Last(CommandManager_undo(S).redo_stack).type = "Delete"
        IN  /\ undone(BezierCmdDelete_execute(Tool, BezierCmdDelete(Tool, a)))
            /\ managed(delete_node_cmd(Session, a))

\* a Delete of the middle anchor of a closed loop of three has been undone:
\* the anchor is back at its index and the loop is closed again
C17_Witness ==
    /\ redo_stack # << >>
    /\ Last(redo_stack).type = "Delete"
    /\ Last(redo_stack).idx = 1 /\ Last(redo_stack).was_closed
    /\ Len(nodes) = 3 /\ is_closed
    /\ nodes[2] = Last(redo_stack).actor
    /\ node_ids[2] = Last(redo_stack).pid

\* ---- C18
\* the square root of n, rounded to the nearest integer
RoundSqrt(n) == (ISqrt(4 * n) + 1) \div 2

\* C18: the segment computed between two anchors has
\* max(10, round(|b - a| / 0.5)) points, |b - a| being the distance of the
\* two anchor points. Refuted: the code truncates the quotient.
C18_SampleCountRounded ==
    \A i, j \in 0 .. (Len(nodes) - 1) :
        LET computed(seg) ==
                Len(seg.pts) = Max(10, RoundSqrt(DistSq(MeshPoints[node_ids[i + 1]],
                                                        MeshPoints[node_ids[j + 1]])))
        IN  computed(_get_segment_points([Tool EXCEPT !.path_cache = EmptyCache], i, j))

\* ---- C19
\* the least vertex id each vertex of the faces `cells` reaches through
\* them: lab[v] after the labels have settled
RECURSIVE ComponentLabels(_, _)
ComponentLabels(cells, lab) ==
    LET least(S) == CHOOSE m \in S : \A x \in S : m <= x
        around(v) == UNION {CellTable[c] : c \in {k \in cells : v \in CellTable[k]}}
        next == [v \in DOMAIN lab |-> least({lab[w] : w \in around(v)})]
    IN  IF next = lab THEN lab ELSE ComponentLabels(cells, next)

\* the vertices of the grid that are not on its boundary
InteriorVertices ==
    {v \in Vertices : /\ v % GridN \notin {0, GridN - 1}
                      /\ v \div GridN \notin {0, GridN - 1}}

\* C19: the region extracted from a closed loop is exactly one connected
\* component of the surface without its barrier vertices (the faces none of
\* whose vertices is a barrier vertex, connected through shared vertices),
\* it holds a vertex of the cut surface nearest to the seed, and it holds
\* no barrier vertex; on the whole grid with the 4 corners as anchors it is
\* the set of interior vertices of the grid.
C19_RegionIsComponent ==
    LET D(v, c) ==
            (c[3] * MeshPoints[v][1] - c[1]) * (c[3] * MeshPoints[v][1] - c[1])
          + (c[3] * MeshPoints[v][2] - c[2]) * (c[3] * MeshPoints[v][2] - c[2])
        component(P, lab) ==
            \E v \in P : P = {w \in DOMAIN lab : lab[w] = lab[v]}
        nearest(P, pts, c) ==
            \E v \in P : \A w \in pts : D(v, c) <= D(w, c)
        cut(P, cells, pts, c) ==
            /\ P \subseteq pts
            /\ component(P, ComponentLabels(cells, [v \in pts |-> v]))
            /\ nearest(P, pts, c)
        extracted(r, fp) ==
            /\ r.result.kind = "patch" =>
                 /\ r.result.points \cap r.surface.is_barrier = {}
                 /\ Range(fp.pts) \subseteq r.surface.is_barrier
                 /\ cut(r.result.points,
                        {k \in mesh.cells : CellTable[k] \cap r.surface.is_barrier = {}},
                        UNION {CellTable[k] :
                                  k \in {k \in mesh.cells :
                                            CellTable[k] \cap r.surface.is_barrier = {}}},
                        PathCentre(fp.pts))
            /\ (mesh = GridMesh /\ Len(node_ids) = 4
                  /\ \A i \in 1 .. 4 : MeshPoints[node_ids[i]] = Corners[i])
                 => r.result = Patch(InteriorVertices)
    IN  is_closed => extracted(get_selected_region(Tool, Surface), _get_full_path_points(Tool))

\* the four corners of the whole grid are the anchors of a closed loop and
\* an extraction has returned the interior of the grid
C19_Witness ==
    /\ mesh = GridMesh /\ is_closed /\ Len(node_ids) = 4
    /\ \A i \in 1 .. 4 : MeshPoints[node_ids[i]] = Corners[i]
    /\ region = Patch(InteriorVertices)
    /\ is_barrier = Vertices \ InteriorVertices

\* ---- C20
\* the number of vertex-adjacency hops between vertices s and e of the
\* strip: a hop moves one column or one row, or one of each along the
\* diagonal of a square
StripHops(s, e) ==
    LET abs(x) == IF x < 0 THEN -x ELSE x
        dc == (e % StripLen) - (s % StripLen)
        dr == (e \div StripLen) - (s \div StripLen)
    IN  IF dc * dr > 0 THEN Max(abs(dc), abs(dr)) ELSE abs(dc) + abs(dr)

\* C20: the search between two consecutive barrier points is bounded by 20
\* hops: the path spliced in between the two joins them with at most 20
\* hops, and a pair more than 20 hops apart is left as it is. Refuted: the
\* search expands a path of 20 vertices, and so joins a pair 21 hops apart.
C20_SearchBoundedBy20Hops ==
    (point_data = {"Normals", "is_barrier"} /\ Len(clean_path_ids) = 2) =>
        LET spliced == is_barrier \ Range(clean_path_ids)
        IN  /\ Range(clean_path_ids) \subseteq is_barrier
            /\ spliced # {} => Cardinality(spliced) + 1 <= 20
            /\ StripHops(clean_path_ids[1], clean_path_ids[2]) > 20 => spliced = {}
            /\ (/\ StripHops(clean_path_ids[1], clean_path_ids[2]) <= 20
                /\ StripHops(clean_path_ids[1], clean_path_ids[2]) > 1)
               => Cardinality(spliced) + 1 = StripHops(clean_path_ids[1], clean_path_ids[2])

\* ---- C21
\* initial_ids without the ids that repeat the id before them
RECURSIVE Deduplicated(_)
Deduplicated(ids) ==
    IF Len(ids) < 2 THEN ids
    ELSE LET front == Deduplicated(Front(ids))
         IN  IF Last(ids) = Last(front) THEN front ELSE Append(front, Last(ids))

\* the vertices of B reached from the vertices S through vertices of B,
\* every step between two vertices that share a face of G
RECURSIVE ChainFrom(_, _, _)
ChainFrom(G, S, B) ==
    LET S2 == S \cup {v \in B : \E u \in S : ShareCell(G, u, v)}
    IN  IF S2 = S THEN S ELSE ChainFrom(G, S2, B)

\* the repair has run on clean_path_ids and is_barrier is what it returned
Repaired == "is_barrier" \in point_data

\* C21: after the repair, for every two consecutive points s, e of the
\* de-duplicated path that are at most 20 hops apart on the surface, the
\* barrier holds s and e and a chain of barrier vertices from s to e, every
\* two consecutive vertices of it sharing a face.
C21_RepairLeavesNoGap ==
    Repaired =>
        LET ids == Deduplicated(clean_path_ids)
        IN  \A i \in 1 .. (Len(ids) - 1) :
                StripHops(ids[i], ids[i + 1]) <= MaxSearchPath =>
                    /\ {ids[i], ids[i + 1]} \subseteq is_barrier
                    /\ ids[i + 1] \in ChainFrom(mesh, {ids[i]}, is_barrier)

\* the repair has joined two points of a row that are 20 hops apart
C21_Witness ==
    /\ Repaired
    /\ clean_path_ids = <<0, MaxSearchPath>>
    /\ is_barrier = 0 .. MaxSearchPath

\* ---- C22
\* C22: when the search finds no path between two consecutive points (they
\* are more than 21 hops apart), the repair adds no vertex for that pair,
\* goes on to the pairs after it, and returns a set that holds every point
\* it was handed: a path of two such points is returned as it is; in a path
\* of three whose first pair is such a pair, the first point is joined to
\* nothing, the vertices added are no more than the shortest path between
\* the second and the third point needs, and these two are joined when they
\* are at most 20 hops apart.
C22_UnfoundGapIsLeft ==
    Repaired =>
        LET ids == Deduplicated(clean_path_ids)
            added == is_barrier \ Range(clean_path_ids)
            unfound(s, e) == StripHops(s, e) > MaxSearchPath + 1
        IN  /\ Range(clean_path_ids) \subseteq is_barrier
            /\ (Len(ids) = 2 /\ unfound(ids[1], ids[2])) => added = {}
            /\ (Len(ids) = 3 /\ unfound(ids[1], ids[2])) =>
                   /\ ChainFrom(mesh, {ids[1]}, is_barrier) = {ids[1]}
                   /\ Cardinality(added) <= Max(StripHops(ids[2], ids[3]) - 1, 0)
                   /\ StripHops(ids[2], ids[3]) <= MaxSearchPath =>
                          ids[3] \in ChainFrom(mesh, {ids[2]}, is_barrier)

\* the repair has left the gap between the two ends of a row and has joined
\* the right end to the point two columns before it
C22_Witness ==
    /\ Repaired
    /\ clean_path_ids = <<0, StripLen - 1, StripLen - 3>>
    /\ StripHops(0, StripLen - 1) > MaxSearchPath + 1
    /\ is_barrier = {0, StripLen - 1, StripLen - 2, StripLen - 3}

\* ---- C23
\* C23: the command manager keeps stack discipline in every reachable
\* state. undo() pops the last command of the undo stack, runs its undo and
\* pushes that command on the redo stack; redo() pops the last command of
\* the redo stack, executes it and pushes it on the undo stack, so a redo
\* after an undo leaves both stacks as long as they were, with a command of
\* the same kind on top; execute() of a new command pushes it and empties
\* the redo stack; undo() and redo() on an empty stack change nothing.
C23_StackDiscipline ==
    LET S == Session
        U == CommandManager_undo(S)
        R == CommandManager_redo(S)
        UR == CommandManager_redo(U)
    IN  /\ S.undo_stack = << >> => U = S
        /\ S.redo_stack = << >> => R = S
        /\ S.undo_stack # << >> =>
               /\ U.undo_stack = Front(S.undo_stack)
               /\ U.redo_stack = Append(S.redo_stack, Last(S.undo_stack))
               /\ U.tool = UndoCmd(S.tool, Last(S.undo_stack)).tool
               /\ U.n_executed = S.n_executed
               /\ Front(UR.undo_stack) = Front(S.undo_stack)
               /\ Len(UR.undo_stack) = Len(S.undo_stack)
               /\ Last(UR.undo_stack).type = Last(S.undo_stack).type
               /\ UR.redo_stack = S.redo_stack
        /\ S.redo_stack # << >> =>
               /\ R.redo_stack = Front(S.redo_stack)
               /\ Front(R.undo_stack) = S.undo_stack
               /\ Len(R.undo_stack) = Len(S.undo_stack) + 1
               /\ Last(R.undo_stack) = Execute(S.tool, Last(S.redo_stack)).cmd
               /\ R.tool = Execute(S.tool, Last(S.redo_stack)).tool
        /\ \A kind \in 1 .. 5 : \A c \in ToolCommands(S)[kind] :
               LET E == CommandManager_execute(S, c)
               IN  /\ E.redo_stack = << >>
                   /\ Front(E.undo_stack) = S.undo_stack
                   /\ Last(E.undo_stack) = Execute(S.tool, c).cmd
                   /\ E.tool = Execute(S.tool, c).tool

\* a command was executed on top of two of the three commands of the
\* session, the third having been undone: the redo stack is empty again
C23_Witness ==
    /\ n_executed = 1
    /\ Len(undo_stack) = 3
    /\ redo_stack = << >>
    /\ \A i \in 1 .. 3 : undo_stack[i].type = "Add"
    /\ Len(actor_pos) = 4

\* ---- C24
\* the least squared distance from hit_pos to segment i (0-based) of the
\* curve of T, the segment as _get_segment_points returns it
CurveSegmentDistSq(T, hit_pos, i) ==
    SegmentDistSq(hit_pos, _get_segment_points(update_curve(T), i, (i + 1) % Len(T.nodes)).pts)

\* C24: for every hit position, _resolve_insertion_index returns -1 when
\* there are fewer than 2 anchors or no segment of the curve is nearer than
\* the threshold (3.5 anchor radii, squared); otherwise it returns the index
\* of a segment that is nearer than the threshold and no farther than any
\* other segment; the segments are those between consecutive anchors, and
\* the one from the last anchor back to the first exactly when the loop is
\* closed.
C24_ResolveInsertionIndex ==
    \A p \in HitPositions :
        LET count == Len(nodes)
            segs == 0 .. ((IF is_closed THEN count ELSE count - 1) - 1)
            idx == _resolve_insertion_index(Tool, p).idx
            near(i) == FracLess(CurveSegmentDistSq(Tool, p, i), ThresholdSq)
        IN  /\ count < 2 => idx = -1
            /\ count >= 2 =>
                   /\ idx = -1 <=> \A i \in segs : ~near(i)
                   /\ idx # -1 =>
                          /\ idx \in segs
                          /\ near(idx)
                          /\ \A j \in segs :
                                 ~FracLess(CurveSegmentDistSq(Tool, p, j),
                                           CurveSegmentDistSq(Tool, p, idx))
                   /\ ~is_closed => idx # count - 1
                   /\ (/\ is_closed
                       /\ near(count - 1)
                       /\ \A j \in 0 .. (count - 2) :
                              FracLess(CurveSegmentDistSq(Tool, p, count - 1),
                                       CurveSegmentDistSq(Tool, p, j)))
                      => idx = count - 1

\* a click on the closing segment of a closed loop of three anchors, and on
\* no other segment, has been resolved to the index of the last anchor: the
\* new anchor is the fourth
C24_Witness ==
    /\ is_closed /\ Len(nodes) = 4
    /\ n_executed = 1
    /\ Last(undo_stack).type = "Add"
    /\ Last(undo_stack).insert_idx = 2
    /\ Last(undo_stack).final_idx = 3
    /\ Last(nodes) = Last(undo_stack).added_actor

\* ---- C25
\* segs[1] followed by segs[2], ..., segs[n] without their first points
RECURSIVE JoinedSegments(_, _)
JoinedSegments(segs, n) ==
    IF n = 0 THEN << >>
    ELSE IF n = 1 THEN segs[1]
    ELSE JoinedSegments(segs, n - 1) \o Tail(segs[n])

\* C25: the full path is empty for fewer than 2 anchors; otherwise it is the
\* segments from each anchor to the next (count - 1 of them when open, count
\* when closed, the last back to anchor 0) joined in order, every segment
\* after the first without its first point; that point is the point of the
\* anchor the segment shares with the one before it, which ends in it, so
\* the shared anchor point is there once. Refuted: a segment read from the cache
\* in the direction it was stored starts at its far anchor, and the point
\* dropped is not the shared one.
C25_FullPathJoinsSegments ==
    LET count == Len(nodes)
        rng == IF is_closed THEN count ELSE count - 1
        full == _get_full_path_points(Tool).pts
        filled == update_curve(Tool)
        segs == [k \in 1 .. rng |-> _get_segment_points(filled, k - 1, k % count).pts]
    IN  /\ count < 2 => full = << >>
        /\ count >= 2 =>
               /\ full = JoinedSegments(segs, rng)
               /\ Len(full) = SumSeq([k \in 1 .. rng |-> Len(segs[k])], 1, rng) - (rng - 1)
               /\ \A k \in 2 .. rng :
                      /\ segs[k][1] = node_ids[k]
                      /\ Last(segs[k - 1]) = node_ids[k]

\* ---- C26
\* C26: a pointer-move during a drag changes nothing but the position at
\* which the dragged handle is shown: the handles of the sequence, the
\* vertex id of every anchor, the closed flag, the cache, both stacks, the
\* positions of the other handles and the drag itself are as before; the
\* drag goes on, whatever the number of moves before the pointer-up.
C26_MoveIsVisualOnly ==
    [][(\E p \in HitPositions : OnMouseMove(p)) =>
            /\ is_dragging /\ is_dragging'
            /\ UNCHANGED <<nodes, node_ids, is_closed, path_cache, undo_stack, redo_stack>>
            /\ UNCHANGED <<active_node, drag_start_pid, drag_start_pos>>
            /\ DOMAIN actor_pos' = DOMAIN actor_pos
            /\ \A a \in DOMAIN actor_pos : a # active_node => actor_pos'[a] = actor_pos[a]
         ]_vars

\* a drag is under way and the handle is shown on another vertex than the
\* one its anchor holds
C26_Witness ==
    /\ is_dragging /\ active_node \in Range(nodes)
    /\ actor_pos[active_node] # node_ids[IndexOf(nodes, active_node)]
    /\ node_ids[IndexOf(nodes, active_node)] = drag_start_pid

\* ---- C27
\* C27: the menu of a right-click on an anchor always offers "Delete
\* Point", and offers "Close Loop" only if the anchor is the last of the
\* sequence and the loop is open. Refuted: the menu of the last anchor
\* offers "Close Loop" on a closed loop as well.
C27_MenuEntries ==
    \A node \in Range(nodes) :
        /\ "Delete Point" \in handle_right_click(Tool, node)
        /\ "Close Loop" \in handle_right_click(Tool, node) =>
               (node = Last(nodes) /\ ~is_closed)

\* ---- C28
\* C28: the Delete key, with anchors in the store, issues exactly one Delete
\* command, for the active (dragged) anchor if there is one and else for the
\* last anchor, and the store then holds one anchor fewer; with an empty
\* store it issues no command. Refuted: after the dragged anchor has left
\* the store, the key issues a Delete for it that removes nothing.
C28_DeleteKey ==
    LET S == handle_key(Session, active_node, "Delete")
        target == IF active_node # 0 THEN active_node ELSE Last(nodes)
    IN  /\ nodes = << >> => S = Session
        /\ nodes # << >> =>
               /\ Front(S.undo_stack) = undo_stack
               /\ Len(S.undo_stack) = Len(undo_stack) + 1
               /\ Last(S.undo_stack).type = "Delete"
               /\ Last(S.undo_stack).actor = target
               /\ Len(S.tool.nodes) = Len(nodes) - 1
               /\ Len(S.tool.node_ids) = Len(node_ids) - 1
               /\ target \notin Range(S.tool.nodes)

\* ---- C29
\* the store of T is empty: no anchor, no cached segment, the loop open
Emptied(T) ==
    /\ T.nodes = << >> /\ T.node_ids = << >>
    /\ T.path_cache = EmptyCache /\ ~T.is_closed

\* the store of T is the one Clear command c saved when it was created
RestoredFrom(T, c) ==
    /\ T.nodes = c.saved_nodes
    /\ T.node_ids = c.saved_ids
    /\ T.is_closed = c.saved_closed

\* C29: in every reachable state, a Clear command created there and
\* executed, alone or as a member of a MultiCommand, leaves the store empty
\* (no anchor, no cached segment, the loop open), and its undo brings back
\* the handles, in order, with the vertex ids and the closed flag of the
\* state it was created in; a MultiCommand executes its members in list
\* order (a Clear followed by an Add leaves the one new anchor) and its
\* undo, members in reverse order, restores the store as well. In a
\* session, the composite command of generate_base leaves the store empty,
\* and every undo of it restores what its Clear saved.
C29_ClearRoundTrip ==
    /\ [](LET c == BezierCmdClear(Tool)
              alone == Execute(Tool, c)
              multi == Execute(Tool, MultiCommand(<<AddMeshCommand, c>>))
          IN  /\ Emptied(alone.tool)
              /\ Emptied(multi.tool)
              /\ SameAnchors(UndoCmd(alone.tool, alone.cmd).tool, Tool)
              /\ SameAnchors(UndoCmd(multi.tool, multi.cmd).tool, Tool)
              /\ SameAnchors(UndoCmd(clear_all_markup(Tool), alone.cmd).tool, Tool)
              /\ \A p \in HitPositions :
                     LET both == Execute(Tool, MultiCommand(<<c, BezierCmdAdd(Tool, p, -1)>>))
                     IN  /\ both.tool.node_ids = <<find_closest_point(p)>>
                         /\ ~both.tool.is_closed
                         /\ SameAnchors(UndoCmd(both.tool, both.cmd).tool, Tool))
    /\ [][(n_executed' = n_executed + 1 /\ Last(undo_stack').type = "Multi") =>
            /\ Emptied(Tool')
            /\ Last(undo_stack').commands[2].type = "Clear"
            /\ RestoredFrom(Tool, Last(undo_stack').commands[2])
         ]_vars
    /\ [][(undo_stack # << >> /\ Last(undo_stack).type = "Multi"
           /\ undo_stack' = Front(undo_stack)) =>
            /\ RestoredFrom(Tool', Last(undo_stack).commands[2])
            /\ Last(redo_stack') = Last(undo_stack)
         ]_vars

\* the composite command of generate_base has been executed and undone: it
\* is on the redo stack, and the closed loop its Clear saved is back
C29_Witness ==
    /\ n_executed = 1
    /\ redo_stack # << >>
    /\ Last(redo_stack).type = "Multi"
    /\ RestoredFrom(Tool, Last(redo_stack).commands[2])
    /\ is_closed /\ Len(nodes) >= 3

\* ---- C30
\* n times CommandManager.redo()
RECURSIVE RedoAll(_, _)
RedoAll(S, n) == IF n = 0 THEN S ELSE RedoAll(CommandManager_redo(S), n - 1)

\* C30: in every reachable state, that is after any sequence of executed
\* Add, Delete, Move, CloseLoop and Clear commands, undoing the last k
\* commands and then redoing k commands leaves the vertex-id sequence and
\* the closed flag as they were before the undos, for every k up to the
\* number of commands on the undo stack. Refuted: a redone Add makes a new
\* handle, and the redo of a later Delete or Move of the anchor still names
\* the old one.
C30_UndoRedoRestores ==
    \A k \in 0 .. Len(undo_stack) :
        SameStore(RedoAll(UndoAll(Session, k), k).tool, Tool)

\* ---- C31
\* C31: in every reachable state a drag in progress is the drag of an
\* anchor of the sequence, whatever Delete keys, undos, redos, clears and
\* stop() calls come between pointer-down and pointer-up; and a pointer-up
\* pushes a Move command only for an anchor of the sequence. Refuted: the
\* Delete key and undo remove the dragged anchor and leave the drag on, and
\* the pointer-up then pushes a Move for the absent handle.
C31_DragOnPresentAnchor ==
    /\ [](is_dragging => active_node \in Range(nodes))
    /\ [][(OnLeftUp /\ undo_stack' # undo_stack) =>
            /\ Last(undo_stack').type = "Move"
            /\ Last(undo_stack').actor \in Range(nodes)
            /\ Last(undo_stack').actor \in Range(nodes')
         ]_vars

\* ---- C32
\* C32: in every reachable state the handles the scene shows are the
\* handles of the anchor sequence: no handle of the sequence has been
\* replaced in the scene, and no handle outside the sequence is shown.
\* Refuted: after an anchor that is not the last one is deleted, the next
\* handle is created under the name of the last handle of the sequence and
\* takes its place in the scene.
C32_SceneShowsAnchors == Shown(plotter) = Range(nodes)

\* ---- C33
\* C33: in every reachable state the handle list and the vertex-id list
\* have the same length, and no handle is at two positions of the anchor
\* sequence.
C33_ListsAligned ==
    /\ Len(nodes) = Len(node_ids)
    /\ \A i, j \in 1 .. Len(nodes) : nodes[i] = nodes[j] => i = j

\* an anchor deleted from a curve of three and put back by undo
C33_Witness ==
    /\ redo_stack # << >>
    /\ Last(redo_stack).type = "Delete"
    /\ Last(redo_stack).actor \in Range(nodes)
    /\ Len(nodes) = 3
    /\ Len(node_ids) = 3

\* ---- C34
\* the longest sequence of start() and stop() calls looked at
MaxCalls == 3

\* the sequences of calls
CallSeqs == UNION {[1 .. n -> {"start", "stop"}] : n \in 1 .. MaxCalls}

\* what the calls q[i], q[i + 1], ... leave of A
RECURSIVE AfterCalls(_, _, _, _)
AfterCalls(A, q, i, active_actor) ==
    IF i > Len(q) THEN A
    ELSE AfterCalls(IF q[i] = "start" THEN start(A, active_actor) ELSE stop(A),
                    q, i + 1, active_actor)

\* C34: whenever the tool is not running, every sequence of start() and
\* stop() calls that holds a start() and ends with stop() leaves the
\* interactor with the style it has now, the one installed before the first
\* start(), and not with the style of the curve tool. Refuted: stop() puts
\* the saved style back and then has the host install its trackball style,
\* so a sculpting style installed before start() is not what stop() leaves.
C34_StopRestoresStyle ==
    ~locator =>
        \A q \in CallSeqs :
            ("start" \in Range(q) /\ Last(q) = "stop") =>
                LET A == AfterCalls(Attachment, q, 1, app_active_actor)
                IN  /\ A.interactor_style = interactor_style
                    /\ A.interactor_style # "bezier"

=============================================================================
